---- MODULE Spec2Model ----
(***************************************************************************)
(* The scene and its gesture pipeline.                                     *)
(*                                                                         *)
(*   Spec          GestureController: the effect that sets the detector up *)
(*                 and tears it down, the landmark classifier and the      *)
(*                 debounce of predictWebcam, and the store (mode,         *)
(*                 handState) with its mode writers                        *)
(*   SpecClassify  the classifier on one sample                            *)
(*   SpecOrnaments the ornament layout generator of Scene                  *)
(*   SpecPolaroids the items generator and the render of Polaroids         *)
(*   SpecMorph     the interpolation accumulators of the useFrame          *)
(*                 callbacks, under changing modes                         *)
(*   SpecSteady    the same accumulators with one mode and one delta       *)
(*   SpecDrag      drag and inertia of TreeGroup                           *)
(*                                                                         *)
(* Landmark coordinates are integers in units of 1/100 of the normalised   *)
(* image, so a landmark is <<x, y>> with x, y in 0..100, and a position is *)
(* <<x, y>> with x, y in -100..100.  Distances are compared through their  *)
(* squares.  The units of the scene are given with each component.         *)
(***************************************************************************)
EXTENDS Integers, Sequences, FiniteSets, TLC

VARIABLES
    mode,               \* store.mode
    handState,          \* store.handState
    pendingGestureRef,  \* GestureController: pendingGestureRef.current
    gestureCountRef,    \* GestureController: gestureCountRef.current
    lastOp,             \* history: the operation that produced this state
    pre,                \* history: store and debounce state before lastOp
    streak,             \* history: run of hand-detected samples with one label, and (held)
                        \* the run that confirmed the gesture handState holds
    resetAge,           \* history: hand samples since the last mismatch, -1 before the first
    clsLandmarks,       \* classifier specification: the sample classified
    clsGesture,         \* classifier specification: the label computed
    \* Scene, ornamentGroups (the ornament layout generator)
    occupiedPositions,  \* accepted entries {pos, radius} of all categories so far
    groups,             \* groups[config.id] of the configs already finished
    targetPositions,    \* current config: accepted formed positions
    chaosPositions,     \* current config: chaos positions
    randomRotations,    \* current config: rotations
    ornCfg,             \* index into configs of the config being processed
    ornI,               \* loop variable i of the current config
    ornAttempts,        \* attempts of the current entity
    ornValid,           \* valid of the current entity
    ornPos,             \* pos, the last candidate drawn
    ornLast,            \* history: the last step of the generator and the lengths before it
    \* Polaroids (the items generator and the render), store.photos
    arr,                \* items: the PolaroidData pushed so far
    polI,               \* loop variable i
    polPhase,           \* "tree" before the tree draw of item i, "chaos" in its while loop, "done"
    polTree,            \* treePos of item i
    cPos,               \* cPos of item i, the last chaos candidate
    polAttempts,        \* attempts of item i
    polValid,           \* valid of item i
    photos,             \* store.photos
    shown,              \* the PolaroidFrames rendered: key and url of each
    polDraws,           \* history: the draws <<yNorm, angle>> of the tree positions
    polFound,           \* history: valid of every item pushed
    objectUrls,         \* PhotoUploader: the object URLs created so far
    removals,           \* PhotoUploader: the photos removed so far
    photoLast,          \* history: the last operation of PhotoUploader, photos before it
    \* The interpolation accumulators of the useFrame callbacks
    polScaleVal,        \* PolaroidFrame: scaleVal.current
    polLerpVal,         \* PolaroidFrame: lerpVal.current
    polGridLerpVal,     \* PolaroidFrame: gridLerpVal.current
    ornLerpVal,         \* Ornaments: lerpVal.current of each of the four instances
    starLerpVal,        \* Star: lerpVal.current
    particlesLerpVal,   \* TreeParticles: lerpVal.current
    frames,             \* history: the number of frames rendered
    lastFrame,          \* history: delta, mode and targets of the last frame, accumulators before it
    \* GestureController: the effect that sets the detector up and tears it down
    setup,              \* where setupMediaPipe and startCamera stand
    handLandmarker,     \* the effect's handLandmarker: "null", "open" or "closed"
    stream,             \* the effect's stream: "null", "live" or "stopped"
    videoRef,           \* videoRef.current: "video" or "null"
    loadeddata,         \* the video's loadeddata listener: "unarmed", "armed" or "fired"
    animationFrameId,   \* the effect's animationFrameId: "undefined" or "set"
    rafPending,         \* a requestAnimationFrame callback of predictWebcam is pending
    videoReady,         \* store.videoReady
    torn,               \* history: the cleanup of the effect has run
    late,               \* history: a detection cycle ran, setHandState was called, after it
    \* TreeGroup (drag and inertia of the tree's rotation)
    isDragging,         \* isDragging.current
    previousMouseX,     \* previousMouseX.current
    velocity,           \* velocity.current
    rotationY,          \* groupRef.current.rotation.y
    pointerEvents,      \* history: the number of pointer events handled
    gestureWrites,      \* history: the number of gestures the store was handed
    victoryFrames,      \* history: the number of frames rendered under VICTORY
    dragLast,           \* history: the last event or frame, and the controller before it
    override,           \* history: "active" while the gesture is VICTORY, "ended" from its
                        \* end to the next frame, "none" otherwise
    coast               \* history: velocity v0 at the last release, the inertia frames k since,
                        \* and |v0| x 0.95^k rounded down (low) and up (high) at every frame

pipeVars == <<mode, handState, pendingGestureRef, gestureCountRef,
              lastOp, pre, streak, resetAge>>
clsVars  == <<clsLandmarks, clsGesture>>
lifeVars == <<setup, handLandmarker, stream, videoRef, loadeddata, animationFrameId,
              rafPending, videoReady, torn, late>>
ornVars  == <<occupiedPositions, groups, targetPositions, chaosPositions,
              randomRotations, ornCfg, ornI, ornAttempts, ornValid, ornPos, ornLast>>
polVars  == <<arr, polI, polPhase, polTree, cPos, polAttempts, polValid,
              photos, shown, polDraws, polFound>>
mixVars  == <<polScaleVal, polLerpVal, polGridLerpVal, ornLerpVal, starLerpVal,
              particlesLerpVal, frames, lastFrame>>
dragVars == <<isDragging, previousMouseX, velocity, rotationY, pointerEvents,
              gestureWrites, victoryFrames, dragLast, override, coast>>
upVars   == <<objectUrls, removals, photoLast>>
sceneVars == <<ornVars, polVars, mixVars, dragVars, upVars>>
besidesOrn == <<pipeVars, clsVars, lifeVars, polVars, mixVars, dragVars, upVars>>
besidesPol == <<pipeVars, clsVars, lifeVars, ornVars, mixVars, dragVars, upVars>>
besidesMix == <<pipeVars, clsVars, lifeVars, ornVars, polVars, dragVars, upVars>>
besidesDrag == <<pipeVars, clsVars, lifeVars, ornVars, polVars, mixVars, upVars>>
besidesUp == <<pipeVars, clsVars, lifeVars, ornVars, mixVars, dragVars>>
vars     == <<pipeVars, clsVars, lifeVars, sceneVars>>

----------------------------------------------------------------------------
(* Bounds and program constants *)

\* gestureCountRef is an unbounded counter in the code; the model stops
\* feeding identical samples once it has reached MaxCount.
MaxCount == 8

GESTURE_CONFIRM_THRESHOLD == 5

\* Scene
TREE_HEIGHT == 16
TREE_RADIUS == 6

\* The layout generator places OrnamentCount ornaments of each category, in
\* place of the 250, 180, 100 and 60 of configs.
OrnamentCount == 2

\* while (!valid && attempts < 100)
MaxOrnamentAttempts == 100

\* Polaroids
COUNT == 25
POLAROID_TREE_HEIGHT == 14
POLAROID_TREE_RADIUS == 5
MIN_DIST == 2400
MaxPolaroidAttempts == 50
gridCols == 5
spacingX == 1750
spacingY == 2100

\* PhotoUploader
MAX_PHOTOS == 25

\* Interpolation: 1.0 of an accumulator, which is kept in units of 2^-20.
MixOne == 1048576

\* Frames rendered in a run of changing modes, and in a run of one mode and
\* one delta.
MaxFrames == 4
MaxSteadyFrames == 370

\* Frames rendered while the mode still changes, before a run in which it
\* stays fixed.
SettleFrom == 1

\* TreeGroup: pointer events, gestures handed to the store and frames under
\* VICTORY in one run.
MaxPointerEvents == 3
MaxGestureWrites == 2
MaxVictoryFrames == 1

\* PhotoUploader: photos removed in one run.
MaxRemovals == 2

\* The draws of the first VariedPolaroids items range over the draw sets of
\* the model; every later item gets the same draws.
VariedPolaroids == 2

TreeMode    == {"CHAOS", "FORMED", "GRID"}
GestureType == {"FIST", "OPEN", "PINCH", "VICTORY", "NONE"}

----------------------------------------------------------------------------
(* Hand samples: the 21 landmarks of one detected hand, indexed 0..20 *)

Wrist == <<50, 90>>

\* Thumb placements <<joint 3, tip 4>>.
ThumbUpFar        == << <<30, 70>>, <<20, 60>> >>
ThumbDownFar      == << <<30, 70>>, <<35, 75>> >>
ThumbUpAtIndexUp  == << <<40, 60>>, <<52, 32>> >>
ThumbDownAtIndexUp == << <<50, 37>>, <<52, 32>> >>
ThumbUpAtIndexDown == << <<45, 80>>, <<52, 62>> >>
ThumbDownAtIndexDown == << <<50, 62>>, <<52, 62>> >>
ThumbUpEdgeOfPinch == << <<40, 60>>, <<53, 34>> >>   \* exactly 0.05 from tip 8 up
ThumbPlacements == {ThumbUpFar, ThumbDownFar, ThumbUpAtIndexUp, ThumbDownAtIndexUp,
                    ThumbUpAtIndexDown, ThumbDownAtIndexDown, ThumbUpEdgeOfPinch}

\* Placements <<joint, tip>> of a finger whose column is x.
FingerUp(x)   == << <<x, 50>>, <<x, 30>> >>
FingerDown(x) == << <<x, 50>>, <<x, 60>> >>
FingerEdge(x) == << <<50, 80>>, <<50, 79>> >>   \* tip exactly 1.1 x joint distance
FingerPlacements(x) == {FingerUp(x), FingerDown(x)}

\* The landmark list of a hand with the given placements; the landmarks the
\* code never reads sit on the wrist.
Hand(thumb, index, middle, ring, pinky, anchor) ==
    [i \in 0..20 |->
        CASE i = 0  -> Wrist
          [] i = 3  -> thumb[1]
          [] i = 4  -> thumb[2]
          [] i = 6  -> index[1]
          [] i = 8  -> index[2]
          [] i = 9  -> anchor
          [] i = 10 -> middle[1]
          [] i = 12 -> middle[2]
          [] i = 14 -> ring[1]
          [] i = 16 -> ring[2]
          [] i = 18 -> pinky[1]
          [] i = 20 -> pinky[2]
          [] OTHER  -> Wrist]

\* Every sample of the classifier specification.
ClsInputs ==
    { Hand(t, i, m, r, p, <<50, 70>>) :
        t \in ThumbPlacements, i \in FingerPlacements(50),
        m \in FingerPlacements(55), r \in FingerPlacements(60),
        p \in FingerPlacements(65) \cup {FingerEdge(65)} }

\* The samples the detector delivers in the pipeline specification.
PoseOpen      == Hand(ThumbUpFar, FingerUp(50), FingerUp(55), FingerUp(60), FingerUp(65), <<50, 70>>)
PoseOpenPinch == Hand(ThumbUpAtIndexUp, FingerUp(50), FingerUp(55), FingerUp(60), FingerUp(65), <<30, 60>>)
PoseVictory   == Hand(ThumbDownFar, FingerUp(50), FingerUp(55), FingerDown(60), FingerDown(65), <<50, 70>>)
PosePinch     == Hand(ThumbUpAtIndexUp, FingerUp(50), FingerDown(55), FingerDown(60), FingerDown(65), <<50, 70>>)
PoseFist      == Hand(ThumbDownFar, FingerDown(50), FingerDown(55), FingerDown(60), FingerDown(65), <<50, 70>>)
PoseFistMoved == Hand(ThumbDownFar, FingerDown(50), FingerDown(55), FingerDown(60), FingerDown(65), <<30, 60>>)
PoseThree     == Hand(ThumbDownFar, FingerUp(50), FingerUp(55), FingerUp(60), FingerDown(65), <<30, 60>>)
Poses == {PoseOpen, PoseOpenPinch, PoseVictory, PosePinch, PoseFist, PoseFistMoved, PoseThree}

----------------------------------------------------------------------------
(* Landmark classifier: predictWebcam, gesture logic *)

\* Square of dist(idx1, idx2) = Math.hypot(dx, dy), in units of 1/100.
Dist2(landmarks, idx1, idx2) ==
    (landmarks[idx1][1] - landmarks[idx2][1]) * (landmarks[idx1][1] - landmarks[idx2][1])
  + (landmarks[idx1][2] - landmarks[idx2][2]) * (landmarks[idx1][2] - landmarks[idx2][2])

\* dist(tip, 0) > dist(joint, 0) * 1.1, with both sides squared and x 100.
Extended(landmarks, tip, joint) ==
    100 * Dist2(landmarks, tip, 0) > 121 * Dist2(landmarks, joint, 0)

isThumbUp(landmarks)  == Extended(landmarks, 4, 3)
isIndexUp(landmarks)  == Extended(landmarks, 8, 6)
isMiddleUp(landmarks) == Extended(landmarks, 12, 10)
isRingUp(landmarks)   == Extended(landmarks, 16, 14)
isPinkyUp(landmarks)  == Extended(landmarks, 20, 18)

B2N(b) == IF b THEN 1 ELSE 0

fingersUp(landmarks) ==
    B2N(isThumbUp(landmarks)) + B2N(isIndexUp(landmarks)) + B2N(isMiddleUp(landmarks))
  + B2N(isRingUp(landmarks)) + B2N(isPinkyUp(landmarks))

\* pinchDist = dist(4, 8) < 0.05, i.e. 5 units, squared.
isPinch(landmarks) == Dist2(landmarks, 4, 8) < 25

\* Faulty variant: VICTORY and PINCH tested before OPEN.
detectedGesture_VictoryFirst(landmarks) ==
    IF isIndexUp(landmarks) /\ isMiddleUp(landmarks)
       /\ ~isRingUp(landmarks) /\ ~isPinkyUp(landmarks) THEN "VICTORY"
    ELSE IF isPinch(landmarks) THEN "PINCH"
    ELSE IF fingersUp(landmarks) >= 4 THEN "OPEN"
    ELSE IF fingersUp(landmarks) <= 1 THEN "FIST"
    ELSE "NONE"

\* Faulty variant: PINCH tested before VICTORY.
detectedGesture_PinchFirst(landmarks) ==
    IF fingersUp(landmarks) >= 4 THEN "OPEN"
    ELSE IF isPinch(landmarks) THEN "PINCH"
    ELSE IF isIndexUp(landmarks) /\ isMiddleUp(landmarks)
            /\ ~isRingUp(landmarks) /\ ~isPinkyUp(landmarks) THEN "VICTORY"
    ELSE IF fingersUp(landmarks) <= 1 THEN "FIST"
    ELSE "NONE"

\* The if / else-if chain that sets detectedGesture.
detectedGesture(landmarks) ==
    IF fingersUp(landmarks) >= 4 THEN "OPEN"
    ELSE IF isIndexUp(landmarks) /\ isMiddleUp(landmarks)
            /\ ~isRingUp(landmarks) /\ ~isPinkyUp(landmarks) THEN "VICTORY"
    ELSE IF isPinch(landmarks) THEN "PINCH"
    ELSE IF fingersUp(landmarks) <= 1 THEN "FIST"
    ELSE "NONE"

\* Position for the 3D scene: x = (1 - l9.x) * 2 - 1, y = -(l9.y * 2 - 1).
Position(landmarks) ==
    << (100 - landmarks[9][1]) * 2 - 100, -(landmarks[9][2] * 2 - 100) >>

\* landmarks.map(l => ({x: l.x, y: l.y}))
simpleLandmarks(landmarks) ==
    [i \in DOMAIN landmarks |-> <<landmarks[i][1], landmarks[i][2]>>]

----------------------------------------------------------------------------
(* Store *)

InitialHandState ==
    [detected |-> FALSE, gesture |-> "NONE", position |-> <<0, 0>>, landmarks |-> <<>>]

\* { ...state.handState, ...partial }
Merge(hs, partial) ==
    [k \in DOMAIN hs |-> IF k \in DOMAIN partial THEN partial[k] ELSE hs[k]]

\* Faulty variant: VICTORY has a case of its own.
NewMode_VictoryForms(m, newState) ==
    IF newState.detected
    THEN CASE newState.gesture = "OPEN"    -> "CHAOS"
           [] newState.gesture = "FIST"    -> "FORMED"
           [] newState.gesture = "PINCH"   -> "GRID"
           [] newState.gesture = "VICTORY" -> "FORMED"
           [] OTHER -> m
    ELSE m

\* The switch of setHandState.
NewMode(m, newState) ==
    IF newState.detected
    THEN CASE newState.gesture = "OPEN"  -> "CHAOS"
           [] newState.gesture = "FIST"  -> "FORMED"
           [] newState.gesture = "PINCH" -> "GRID"
           [] OTHER -> m
    ELSE m

\* Faulty variant: the switch reads state.handState instead of newState.
setHandState_Stale(partial) ==
    /\ handState' = Merge(handState, partial)
    /\ mode' = NewMode(mode, handState)

\* setHandState(partial): the store's handState and mode afterwards.
setHandState(partial) ==
    /\ handState' = Merge(handState, partial)
    /\ mode' = NewMode(mode, Merge(handState, partial))

\* Faulty variant: everything but CHAOS goes to CHAOS.
ToggleResult_FormedChaosOnly(m) == IF m = "CHAOS" THEN "FORMED" ELSE "CHAOS"

\* state.mode === TreeMode.FORMED ? TreeMode.CHAOS : TreeMode.FORMED
ToggleResult(m) == IF m = "FORMED" THEN "CHAOS" ELSE "FORMED"

Snapshot ==
    [mode |-> mode, handState |-> handState,
     pending |-> pendingGestureRef, count |-> gestureCountRef]

\* History record of one operation: its name, the sample and the label the
\* classifier gave it (hand updates), and whether the partial it handed to
\* setHandState holds a gesture field.
Op(name, sample, label, wrote) ==
    [op |-> name, sample |-> sample, label |-> label, wrote |-> wrote]

----------------------------------------------------------------------------
(* Actions of the pipeline *)

\* Faulty variant: a toggle while a hand is detected resets handState.
toggleMode_ClearsHand ==
    /\ mode' = ToggleResult(mode)
    /\ handState' = IF handState.detected THEN InitialHandState ELSE handState
    /\ lastOp' = Op("toggleMode", <<>>, "NONE", FALSE)
    /\ pre' = Snapshot
    /\ UNCHANGED <<pendingGestureRef, gestureCountRef, streak, resetAge, clsVars, lifeVars,
                   sceneVars>>

\* toggleMode: set(state => ({ mode: ... })).
toggleMode ==
    /\ mode' = ToggleResult(mode)
    /\ lastOp' = Op("toggleMode", <<>>, "NONE", FALSE)
    /\ pre' = Snapshot
    /\ UNCHANGED <<handState, pendingGestureRef, gestureCountRef, streak, resetAge, clsVars,
                   lifeVars, sceneVars>>

\* Faulty variant: a new candidate inherits the count.
Debounce_KeepsCount(pending, count, g) ==
    IF g = pending THEN <<pending, count + 1>> ELSE <<g, count>>

\* The debounce step: <<pending, count>> after a sample classified as g.
Debounce(pending, count, g) ==
    IF g = pending THEN <<pending, count + 1>> ELSE <<g, 0>>

\* Faulty variant: one sample less is needed.
Confirmed_OneEarly(count) == count >= GESTURE_CONFIRM_THRESHOLD

\* Faulty variant: one more sample is needed.
Confirmed_OneLate(count) == count > GESTURE_CONFIRM_THRESHOLD + 1

\* gestureCountRef.current > GESTURE_CONFIRM_THRESHOLD
Confirmed(count) == count > GESTURE_CONFIRM_THRESHOLD

\* Faulty variant: the unconfirmed update forwards no landmarks.
HandPartial_DropsLandmarks(landmarks, g, confirmed) ==
    IF confirmed
    THEN [detected |-> TRUE, gesture |-> g, position |-> Position(landmarks),
          landmarks |-> simpleLandmarks(landmarks)]
    ELSE [detected |-> TRUE, position |-> Position(landmarks)]

\* The partial handed to setHandState for a hand sample.
HandPartial(landmarks, g, confirmed) ==
    IF confirmed
    THEN [detected |-> TRUE, gesture |-> g, position |-> Position(landmarks),
          landmarks |-> simpleLandmarks(landmarks)]
    ELSE [detected |-> TRUE, position |-> Position(landmarks),
          landmarks |-> simpleLandmarks(landmarks)]

\* What calls predictWebcam: the video's loadeddata event, or the animation
\* frame it asked for.
Triggers == {"loadeddata", "frame"}

Fires(trigger) == IF trigger = "loadeddata" THEN loadeddata = "armed" ELSE rafPending

\* !videoRef.current || !handLandmarker is false.
Running == videoRef # "null" /\ handLandmarker # "null"

\* A call of predictWebcam that gets past the first line and ends in
\* requestAnimationFrame(predictWebcam); writes tells whether it called
\* setHandState.
Cycle(writes) ==
    \E trigger \in Triggers :
        /\ Fires(trigger)
        /\ Running
        /\ loadeddata' = IF trigger = "loadeddata" THEN "fired" ELSE loadeddata
        /\ rafPending' = TRUE
        /\ animationFrameId' = "set"
        /\ late' = [cycle |-> late.cycle \/ torn, write |-> late.write \/ (torn /\ writes)]
        /\ UNCHANGED <<setup, handLandmarker, stream, videoRef, videoReady, torn>>

\* predictWebcam, result.landmarks.length > 0.
predictHand(landmarks) ==
    LET g  == detectedGesture(landmarks)
        d  == Debounce(pendingGestureRef, gestureCountRef, g)
        ok == Confirmed(d[2])
    IN  /\ d[2] <= MaxCount
        /\ Cycle(TRUE)
        /\ pendingGestureRef' = d[1]
        /\ gestureCountRef' = d[2]
        /\ setHandState(HandPartial(landmarks, g, ok))
        /\ lastOp' = Op("hand", landmarks, g, "gesture" \in DOMAIN HandPartial(landmarks, g, ok))
        /\ pre' = Snapshot
        /\ streak' = LET len == IF streak.len > 0 /\ streak.label = g
                                 THEN streak.len + 1 ELSE 1
                     IN  [label |-> g, len |-> len,
                          primed |-> IF len > 1 THEN streak.primed ELSE pendingGestureRef = g,
                          held |-> IF ok THEN [label |-> g, len |-> len] ELSE streak.held]
        /\ resetAge' = IF g # pendingGestureRef THEN 0
                       ELSE IF resetAge >= 0 /\ resetAge < MaxCount THEN resetAge + 1
                       ELSE resetAge
        /\ UNCHANGED <<clsVars, sceneVars>>

\* Faulty variant: the landmarks survive the loss of the hand.
NoHandPartial_KeepsLandmarks == [detected |-> FALSE, gesture |-> "NONE"]

\* Faulty variant: the gesture survives the loss of the hand.
NoHandPartial_KeepsGesture == [detected |-> FALSE, landmarks |-> <<>>]

\* The partial handed to setHandState when no hand is found.
NoHandPartial == [detected |-> FALSE, gesture |-> "NONE", landmarks |-> <<>>]

\* predictWebcam, no landmarks in the result.
predictNoHand ==
    /\ Cycle(TRUE)
    /\ gestureCountRef' = 0
    /\ setHandState(NoHandPartial)
    /\ lastOp' = Op("nohand", <<>>, "NONE", "gesture" \in DOMAIN NoHandPartial)
    /\ pre' = Snapshot
    /\ streak' = [label |-> "NONE", len |-> 0, primed |-> FALSE,
                  held |-> [label |-> "NONE", len |-> 0]]
    /\ UNCHANGED <<pendingGestureRef, resetAge, clsVars, sceneVars>>

\* predictWebcam when the cycle does not call the detector: the 30 FPS cap,
\* or currentTime = 0.
predictSkip ==
    /\ Cycle(FALSE)
    /\ lastOp' = Op("skip", <<>>, "NONE", FALSE)
    /\ pre' = Snapshot
    /\ UNCHANGED <<mode, handState, pendingGestureRef, gestureCountRef,
                   streak, resetAge, clsVars, sceneVars>>

\* Faulty variant: the cycle that throws asks for no further frame.
predictThrows_StopsLoop ==
    /\ \E trigger \in Triggers :
           /\ Fires(trigger)
           /\ Running
           /\ loadeddata' = IF trigger = "loadeddata" THEN "fired" ELSE loadeddata
    /\ rafPending' = FALSE
    /\ late' = [late EXCEPT !.cycle = @ \/ torn]
    /\ lastOp' = Op("threw", <<>>, "NONE", FALSE)
    /\ pre' = Snapshot
    /\ UNCHANGED <<mode, handState, pendingGestureRef, gestureCountRef,
                   streak, resetAge, clsVars, sceneVars,
                   setup, handLandmarker, stream, videoRef, animationFrameId, videoReady, torn>>

\* predictWebcam when detectForVideo throws: the catch logs the error, and
\* the next frame is asked for after the try.
predictThrows ==
    /\ Cycle(FALSE)
    /\ lastOp' = Op("threw", <<>>, "NONE", FALSE)
    /\ pre' = Snapshot
    /\ UNCHANGED <<mode, handState, pendingGestureRef, gestureCountRef,
                   streak, resetAge, clsVars, sceneVars>>

\* predictWebcam when !videoRef.current || !handLandmarker: it returns at
\* once and asks for no further frame.
predictReturn ==
    /\ \E trigger \in Triggers :
           /\ Fires(trigger)
           /\ ~Running
           /\ loadeddata' = IF trigger = "loadeddata" THEN "fired" ELSE loadeddata
           /\ rafPending' = IF trigger = "frame" THEN FALSE ELSE rafPending
    /\ lastOp' = Op("return", <<>>, "NONE", FALSE)
    /\ pre' = Snapshot
    /\ UNCHANGED <<mode, handState, pendingGestureRef, gestureCountRef,
                   streak, resetAge, clsVars, sceneVars,
                   setup, handLandmarker, stream, videoRef, animationFrameId, videoReady,
                   torn, late>>

predictWebcam ==
    \/ \E landmarks \in Poses : predictHand(landmarks)
    \/ predictNoHand
    \/ predictSkip
    \/ predictThrows
    \/ predictReturn

----------------------------------------------------------------------------
(* The effect of GestureController: setupMediaPipe, startCamera, cleanup *)

\* FilesetResolver.forVisionTasks resolves.
forVisionTasksResolves ==
    /\ setup = "vision"
    /\ setup' = "model"
    /\ UNCHANGED <<handLandmarker, stream, videoRef, loadeddata, animationFrameId,
                   rafPending, videoReady, torn, late, pipeVars, clsVars, sceneVars>>

\* HandLandmarker.createFromOptions resolves and startCamera runs: with
\* navigator.mediaDevices.getUserMedia it asks for the camera, without it it
\* does nothing.
createFromOptionsResolves ==
    /\ setup = "model"
    /\ handLandmarker' = "open"
    /\ \E mediaDevices \in BOOLEAN : setup' = IF mediaDevices THEN "camera" ELSE "nomedia"
    /\ UNCHANGED <<stream, videoRef, loadeddata, animationFrameId,
                   rafPending, videoReady, torn, late, pipeVars, clsVars, sceneVars>>

\* Either await of setupMediaPipe rejects: the catch logs the error.
setupMediaPipeCatch ==
    /\ setup \in {"vision", "model"}
    /\ setup' = "failed"
    /\ UNCHANGED <<handLandmarker, stream, videoRef, loadeddata, animationFrameId,
                   rafPending, videoReady, torn, late, pipeVars, clsVars, sceneVars>>

\* getUserMedia resolves: .then((s) => ...).
getUserMediaThen ==
    /\ setup = "camera"
    /\ setup' = "granted"
    /\ stream' = "live"
    /\ IF videoRef # "null"
       THEN loadeddata' = "armed" /\ videoReady' = TRUE
       ELSE UNCHANGED <<loadeddata, videoReady>>
    /\ UNCHANGED <<handLandmarker, videoRef, animationFrameId, rafPending, torn, late,
                   pipeVars, clsVars, sceneVars>>

\* Faulty variant: the rejection goes on as if a camera were there.
getUserMediaCatch_ArmsListener ==
    /\ setup = "camera"
    /\ setup' = "denied"
    /\ IF videoRef # "null"
       THEN loadeddata' = "armed" /\ videoReady' = TRUE
       ELSE UNCHANGED <<loadeddata, videoReady>>
    /\ UNCHANGED <<handLandmarker, stream, videoRef, animationFrameId, rafPending, torn, late,
                   pipeVars, clsVars, sceneVars>>

\* getUserMedia rejects: .catch((err) => ...) warns.
getUserMediaCatch ==
    /\ setup = "camera"
    /\ setup' = "denied"
    /\ UNCHANGED <<handLandmarker, stream, videoRef, loadeddata, animationFrameId,
                   rafPending, videoReady, torn, late, pipeVars, clsVars, sceneVars>>

\* The component unmounts: React sets videoRef.current to null and runs the
\* cleanup of the effect.
cleanup ==
    /\ ~torn
    /\ torn' = TRUE
    /\ videoRef' = "null"
    /\ stream' = IF stream = "live" THEN "stopped" ELSE stream
    /\ rafPending' = IF animationFrameId # "undefined" THEN FALSE ELSE rafPending
    /\ handLandmarker' = IF handLandmarker = "open" THEN "closed" ELSE handLandmarker
    /\ UNCHANGED <<setup, loadeddata, animationFrameId, videoReady, late,
                   pipeVars, clsVars, sceneVars>>

\* The effect as the component mounts: setupMediaPipe() awaits forVisionTasks.
LifeInit ==
    /\ setup = "vision"
    /\ handLandmarker = "null"
    /\ stream = "null"
    /\ videoRef = "video"
    /\ loadeddata = "unarmed"
    /\ animationFrameId = "undefined"
    /\ rafPending = FALSE
    /\ videoReady = FALSE
    /\ torn = FALSE
    /\ late = [cycle |-> FALSE, write |-> FALSE]

PipeInit ==
    /\ mode = "FORMED"
    /\ handState = InitialHandState
    /\ pendingGestureRef = "NONE"
    /\ gestureCountRef = 0
    /\ lastOp = Op("init", <<>>, "NONE", FALSE)
    /\ pre = [mode |-> "FORMED", handState |-> InitialHandState,
              pending |-> "NONE", count |-> 0]
    /\ streak = [label |-> "NONE", len |-> 0, primed |-> FALSE,
                 held |-> [label |-> "NONE", len |-> 0]]
    /\ resetAge = -1

ClsIdle ==
    /\ clsLandmarks = <<>>
    /\ clsGesture = "unset"

\* The configs of ornamentGroups; scale in thousandths, weight in hundredths.
configs ==
    << [id |-> "gold",   count |-> OrnamentCount, weight |-> 20, scale |-> 350],
       [id |-> "red",    count |-> OrnamentCount, weight |-> 20, scale |-> 300],
       [id |-> "silver", count |-> OrnamentCount, weight |-> 20, scale |-> 200],
       [id |-> "box",    count |-> OrnamentCount, weight |-> 80, scale |-> 600] >>

\* ornamentGroups before its first draw.
OrnInit ==
    /\ occupiedPositions = <<>>
    /\ groups = [id \in {configs[k].id : k \in 1..Len(configs)} |-> "undefined"]
    /\ targetPositions = <<>>
    /\ chaosPositions = <<>>
    /\ randomRotations = <<>>
    /\ ornCfg = 1
    /\ ornI = 0
    /\ ornAttempts = 0
    /\ ornValid = FALSE
    /\ ornPos = <<0, 0, 0>>
    /\ ornLast = [step |-> "init", cfg |-> 1, i |-> 0, attempts |-> 0,
                  before |-> [target |-> 0, chaos |-> 0, rot |-> 0, occupied |-> 0]]

\* Polaroids before its first render; the store starts with photos: [].
PolInit ==
    /\ arr = <<>>
    /\ polI = 0
    /\ polPhase = "tree"
    /\ polTree = <<0, 0, 0>>
    /\ cPos = <<0, 0, 0>>
    /\ polAttempts = 0
    /\ polValid = FALSE
    /\ photos = <<>>
    /\ shown = <<>>
    /\ polDraws = <<>>
    /\ polFound = <<>>

\* The accumulators as the components mount: useRef(0).
MixInit ==
    /\ polScaleVal = 0
    /\ polLerpVal = 0
    /\ polGridLerpVal = 0
    /\ ornLerpVal = [id \in {configs[k].id : k \in 1..Len(configs)} |-> 0]
    /\ starLerpVal = 0
    /\ particlesLerpVal = 0
    /\ frames = 0
    /\ lastFrame = [delta |-> 0, mode |-> "none"]

\* TreeGroup as it mounts.
DragInit ==
    /\ isDragging = FALSE
    /\ previousMouseX = 0
    /\ velocity = 0
    /\ rotationY = 0
    /\ pointerEvents = 0
    /\ gestureWrites = 0
    /\ victoryFrames = 0
    /\ override = "none"
    /\ dragLast = [op |-> "init", x |-> 0, gesture |-> "NONE", override |-> "none",
                   before |-> [isDragging |-> FALSE, previousMouseX |-> 0,
                               velocity |-> 0, rotationY |-> 0]]
    /\ coast = [on |-> FALSE, v0 |-> 0, k |-> 0, low |-> 0, high |-> 0]

UpInit ==
    /\ objectUrls = 0
    /\ removals = 0
    /\ photoLast = [op |-> "init", n |-> 0, before |-> <<>>, urls |-> 0]

SceneInit == OrnInit /\ PolInit /\ MixInit /\ DragInit /\ UpInit

Init == PipeInit /\ ClsIdle /\ LifeInit /\ SceneInit

Next ==
    \/ toggleMode
    \/ predictWebcam
    \/ forVisionTasksResolves
    \/ createFromOptionsResolves
    \/ setupMediaPipeCatch
    \/ getUserMediaThen
    \/ getUserMediaCatch
    \/ cleanup

Spec == Init /\ [][Next]_vars

----------------------------------------------------------------------------
(* Classifier specification: one sample, classified once *)

Classify ==
    /\ clsGesture = "unset"
    /\ clsGesture' = detectedGesture(clsLandmarks)
    /\ UNCHANGED <<clsLandmarks, pipeVars, lifeVars, sceneVars>>

ClsInit ==
    /\ PipeInit
    /\ LifeInit
    /\ SceneInit
    /\ clsLandmarks \in ClsInputs
    /\ clsGesture = "unset"

ClsNext == Classify

SpecClassify == ClsInit /\ [][ClsNext]_vars

----------------------------------------------------------------------------
(* Scene: the ornament layout generator (ornamentGroups)                    *)
(*                                                                          *)
(* Lengths are integers in units of 1/1000, random draws in units of 1/100, *)
(* angles in degrees.  Distances are compared through their squares.        *)

ConfigIds == {configs[k].id : k \in 1..Len(configs)}

myRadius(config) == (config.scale * 11) \div 10

\* Math.cos and Math.sin, in thousandths, on the angles the model draws.
Cos(angle) == CASE angle = 0 -> 1000 [] angle = 90 -> 0 [] angle = 180 -> -1000 [] angle = 270 -> 0
Sin(angle) == CASE angle = 0 -> 0 [] angle = 90 -> 1000 [] angle = 180 -> 0 [] angle = 270 -> -1000

\* pos.set(r * Math.cos(angle), y, r * Math.sin(angle)) for the draws yNorm, angle.
OrnamentPoint(yNorm, angle) ==
    LET y == (yNorm - 50) * TREE_HEIGHT * 10
        r == (100 - yNorm) * TREE_RADIUS * 10 + 500
    IN  <<(r * Cos(angle)) \div 1000, y, (r * Sin(angle)) \div 1000>>

\* Square of Vector3.distanceTo.
VDist2(p, q) ==
    (p[1] - q[1]) * (p[1] - q[1]) + (p[2] - q[2]) * (p[2] - q[2])
        + (p[3] - q[3]) * (p[3] - q[3])

\* The collision loop over occupiedPositions.
Collision(p, radius, occupied) ==
    \E k \in 1..Len(occupied) :
        VDist2(p, occupied[k].pos)
            < (radius + occupied[k].radius) * (radius + occupied[k].radius)

\* The chaos position for the draws of rChaos, theta and phi; Math.acos(2v - 1)
\* is taken on the draws v = 0 (phi = pi) and v = 0.5 (phi = pi / 2).
OrnamentChaosPoint(rr, theta, v) ==
    LET rChaos == 10000 + rr * 150
        cosPhi == 20 * v - 1000
        sinPhi == IF v = 50 THEN 1000 ELSE 0
    IN  <<(((rChaos * sinPhi) \div 1000) * Cos(theta)) \div 1000,
          (((rChaos * sinPhi) \div 1000) * Sin(theta)) \div 1000,
          (rChaos * cosPhi) \div 1000>>

\* Draws <<yNorm, angle>> of a candidate: three heights close to one another
\* on one meridian of the cone, and one point on a second meridian.
OrnamentDraws == {<<50, 0>>, <<52, 0>>, <<55, 0>>, <<50, 90>>}

\* Draws <<rChaos, theta, phi>> of a chaos position.
OrnamentChaosDraws == {<<60, 90, 50>>}

\* Draws of new THREE.Euler(Math.random() * Math.PI, Math.random() * Math.PI, 0),
\* in hundredths of pi.
RotationDraws == {<<0, 0, 0>>}

OrnLengths ==
    [target |-> Len(targetPositions), chaos |-> Len(chaosPositions),
     rot |-> Len(randomRotations), occupied |-> Len(occupiedPositions)]

OrnStep(name) ==
    [step |-> name, cfg |-> ornCfg, i |-> ornI, attempts |-> ornAttempts,
     before |-> OrnLengths]

\* Faulty variant: the loop runs while attempts <= 100.
ornAttempt_OneMore ==
    /\ ornCfg <= Len(configs)
    /\ ~ornValid
    /\ ornAttempts <= MaxOrnamentAttempts
    /\ \E d \in OrnamentDraws :
           /\ ornPos' = OrnamentPoint(d[1], d[2])
           /\ ornValid' = ~Collision(OrnamentPoint(d[1], d[2]),
                                     myRadius(configs[ornCfg]), occupiedPositions)
    /\ ornAttempts' = ornAttempts + 1
    /\ ornLast' = OrnStep("attempt")
    /\ UNCHANGED <<occupiedPositions, groups, targetPositions, chaosPositions,
                   randomRotations, ornCfg, ornI, besidesOrn>>

\* One iteration of while (!valid && attempts < 100).
ornAttempt ==
    /\ ornCfg <= Len(configs)
    /\ ~ornValid
    /\ ornAttempts < MaxOrnamentAttempts
    /\ \E d \in OrnamentDraws :
           /\ ornPos' = OrnamentPoint(d[1], d[2])
           /\ ornValid' = ~Collision(OrnamentPoint(d[1], d[2]),
                                     myRadius(configs[ornCfg]), occupiedPositions)
    /\ ornAttempts' = ornAttempts + 1
    /\ ornLast' = OrnStep("attempt")
    /\ UNCHANGED <<occupiedPositions, groups, targetPositions, chaosPositions,
                   randomRotations, ornCfg, ornI, besidesOrn>>

\* Faulty variant: every config starts from an empty occupiedPositions.
ornFinish_ForgetsEarlier ==
    /\ ornCfg <= Len(configs)
    /\ ornValid \/ ornAttempts >= MaxOrnamentAttempts
    /\ \E c \in OrnamentChaosDraws, e \in RotationDraws :
        LET config == configs[ornCfg]
            tp  == IF ornValid THEN Append(targetPositions, ornPos) ELSE targetPositions
            cp  == IF ornValid
                   THEN Append(chaosPositions, OrnamentChaosPoint(c[1], c[2], c[3]))
                   ELSE chaosPositions
            rr  == IF ornValid THEN Append(randomRotations, e) ELSE randomRotations
            occ == IF ornValid
                   THEN Append(occupiedPositions, [pos |-> ornPos, radius |-> myRadius(config)])
                   ELSE occupiedPositions
        IN  /\ IF ornI + 1 < config.count
               THEN /\ targetPositions' = tp
                    /\ chaosPositions' = cp
                    /\ randomRotations' = rr
                    /\ occupiedPositions' = occ
                    /\ ornI' = ornI + 1
                    /\ UNCHANGED <<groups, ornCfg>>
               ELSE /\ groups' = [groups EXCEPT ![config.id] =
                                     [targetPositions |-> tp, chaosPositions |-> cp,
                                      randomRotations |-> rr]]
                    /\ targetPositions' = <<>>
                    /\ chaosPositions' = <<>>
                    /\ randomRotations' = <<>>
                    /\ occupiedPositions' = <<>>
                    /\ ornI' = 0
                    /\ ornCfg' = ornCfg + 1
    /\ ornAttempts' = 0
    /\ ornValid' = FALSE
    /\ ornLast' = OrnStep(IF ornValid THEN "placed" ELSE "dropped")
    /\ ornPos' = <<0, 0, 0>>
    /\ UNCHANGED besidesOrn

\* The end of one iteration of for (i < config.count): if (valid) { push ... },
\* and after the last one groups[config.id] = { ... } and the next config.
ornFinish ==
    /\ ornCfg <= Len(configs)
    /\ ornValid \/ ornAttempts >= MaxOrnamentAttempts
    /\ \E c \in OrnamentChaosDraws, e \in RotationDraws :
        LET config == configs[ornCfg]
            tp  == IF ornValid THEN Append(targetPositions, ornPos) ELSE targetPositions
            cp  == IF ornValid
                   THEN Append(chaosPositions, OrnamentChaosPoint(c[1], c[2], c[3]))
                   ELSE chaosPositions
            rr  == IF ornValid THEN Append(randomRotations, e) ELSE randomRotations
        IN  /\ occupiedPositions' =
                   IF ornValid
                   THEN Append(occupiedPositions, [pos |-> ornPos, radius |-> myRadius(config)])
                   ELSE occupiedPositions
            /\ IF ornI + 1 < config.count
               THEN /\ targetPositions' = tp
                    /\ chaosPositions' = cp
                    /\ randomRotations' = rr
                    /\ ornI' = ornI + 1
                    /\ UNCHANGED <<groups, ornCfg>>
               ELSE /\ groups' = [groups EXCEPT ![config.id] =
                                     [targetPositions |-> tp, chaosPositions |-> cp,
                                      randomRotations |-> rr]]
                    /\ targetPositions' = <<>>
                    /\ chaosPositions' = <<>>
                    /\ randomRotations' = <<>>
                    /\ ornI' = 0
                    /\ ornCfg' = ornCfg + 1
    /\ ornAttempts' = 0
    /\ ornValid' = FALSE
    /\ ornLast' = OrnStep(IF ornValid THEN "placed" ELSE "dropped")
    /\ ornPos' = <<0, 0, 0>>
    /\ UNCHANGED besidesOrn

OrnNext ==
    \/ ornAttempt
    \/ ornFinish

SpecOrnaments == Init /\ [][OrnNext]_vars

----------------------------------------------------------------------------
(* Polaroids: the items generator and the render                            *)
(*                                                                          *)
(* Units as in the ornament generator.                                      *)

startX == -(((gridCols - 1) * spacingX) \div 2)

\* Math.ceil(COUNT / gridCols)
rows == (COUNT + gridCols - 1) \div gridCols

totalGridHeight == (rows - 1) * spacingY

\* Faulty variant: the grid hangs down from 2.9 + totalGridHeight.
startY_Uncentred == 2900 + totalGridHeight

startY == 2900 + totalGridHeight \div 2

\* gPos of item i.
GridPoint(i) ==
    LET col == i % gridCols
        row == i \div gridCols
    IN  <<startX + col * spacingX, startY - row * spacingY, 8000>>

\* Faulty variant: the polaroids sit on the cone of the ornaments.
PolaroidTreePoint_OrnamentCone(yNorm, angle) ==
    LET y == (yNorm - 50) * TREE_HEIGHT * 10
        r == (100 - yNorm) * TREE_RADIUS * 10 + 500
    IN  <<(r * Cos(angle)) \div 1000, y, (r * Sin(angle)) \div 1000>>

\* treePos for the draws yNorm, angle.
PolaroidTreePoint(yNorm, angle) ==
    LET y == (yNorm - 50) * POLAROID_TREE_HEIGHT * 10
        r == (100 - yNorm) * POLAROID_TREE_RADIUS * 10 + 1500
    IN  <<(r * Cos(angle)) \div 1000, y, (r * Sin(angle)) \div 1000>>

\* cPos.set(...) for the draws of chaosAngle, chaosRadius and chaosHeight.
PolaroidChaosPoint(chaosAngle, rr, hh) ==
    LET chaosRadius == 9000 + rr * 70
        chaosHeight == (hh - 50) * 120 + 4000
    IN  <<(Cos(chaosAngle) * chaosRadius) \div 1000, chaosHeight,
          (Sin(chaosAngle) * chaosRadius) \div 1000>>

\* Faulty variant: a candidate is tested against the last item only.
ChaosCollision_LastOnly(p, items) ==
    Len(items) > 0 /\ VDist2(items[Len(items)].chaosPos, p) < MIN_DIST * MIN_DIST

\* The collision loop over arr.
ChaosCollision(p, items) ==
    \E k \in 1..Len(items) : VDist2(items[k].chaosPos, p) < MIN_DIST * MIN_DIST

\* Draws <<yNorm, angle>> of a tree position: two points 0.3 apart.
PolaroidTreeDraws(i) ==
    IF i < VariedPolaroids THEN {<<50, 0>>, <<52, 0>>} ELSE {<<50, 0>>}

\* Draws <<chaosAngle, chaosRadius, chaosHeight>> of a chaos candidate: a point,
\* one 1.75 from it, one exactly 2.4 from it, and one far away.
PolaroidChaosDraws(i) ==
    IF i < VariedPolaroids
    THEN {<<0, 0, 50>>, <<0, 25, 50>>, <<0, 0, 70>>, <<180, 0, 50>>}
    ELSE {<<0, 0, 50>>}

\* Draws of rotSpeed; (Math.random() - 0.5) * 0.5 in thousandths.
RotSpeed(rx, ry) == [x |-> (rx - 50) * 5, y |-> (ry - 50) * 5]

Placeholder == "https://picsum.photos/200/200"

\* photoUrl={photos[index] || null}, index counted from 0.
PhotoProp(list, index) ==
    IF index < Len(list) /\ list[index + 1] # "" THEN list[index + 1] ELSE "null"

\* const url = photoUrl || "https://picsum.photos/200/200"
FrameUrl(photoUrl) == IF photoUrl = "null" \/ photoUrl = "" THEN Placeholder ELSE photoUrl

\* items.map((item, index) => <PolaroidFrame key={item.id} ... />)
Render(items, list) ==
    [k \in 1..Len(items) |-> [key |-> items[k].id, url |-> FrameUrl(PhotoProp(list, k - 1))]]

\* The object URL of the n-th file ever uploaded.
Url(n) == "blob:" \o ToString(n)

\* Photo lists of every length up to MAX_PHOTOS: the first n uploads, and the
\* same after the first photo was removed and one more was uploaded.
PhotoLists ==
    {[k \in 1..n |-> Url(k)] : n \in 0..MAX_PHOTOS}
        \cup {[k \in 1..n |-> Url(k + 1)] : n \in 1..MAX_PHOTOS}

\* The start of one iteration of for (i < COUNT): the tree position.
polBegin ==
    /\ polPhase = "tree"
    /\ \E d \in PolaroidTreeDraws(polI) :
           /\ polTree' = PolaroidTreePoint(d[1], d[2])
           /\ polDraws' = Append(polDraws, d)
    /\ cPos' = <<0, 0, 0>>
    /\ polAttempts' = 0
    /\ polValid' = FALSE
    /\ polPhase' = "chaos"
    /\ UNCHANGED <<arr, polI, photos, shown, polFound, besidesPol>>

\* One iteration of while (!valid && attempts < 50).
polAttempt ==
    /\ polPhase = "chaos"
    /\ ~polValid
    /\ polAttempts < MaxPolaroidAttempts
    /\ \E d \in PolaroidChaosDraws(polI) :
           /\ cPos' = PolaroidChaosPoint(d[1], d[2], d[3])
           /\ polValid' = ~ChaosCollision(PolaroidChaosPoint(d[1], d[2], d[3]), arr)
    /\ polAttempts' = polAttempts + 1
    /\ UNCHANGED <<arr, polI, polPhase, polTree, photos, shown, polDraws, polFound,
                   besidesPol>>

\* Faulty variant: an item whose chaos position collides is not pushed.
polPush_SkipsInvalid ==
    /\ polPhase = "chaos"
    /\ polValid \/ polAttempts >= MaxPolaroidAttempts
    /\ LET item == [id |-> polI, treePos |-> polTree, chaosPos |-> cPos,
                    gridPos |-> GridPoint(polI),
                    lookAtTree |-> <<0, polTree[2], 0>>,
                    rotSpeed |-> RotSpeed(50, 50)]
           items == IF polValid THEN Append(arr, item) ELSE arr
       IN  /\ arr' = items
           /\ polI' = polI + 1
           /\ IF polI + 1 < COUNT
              THEN polPhase' = "tree" /\ shown' = shown
              ELSE polPhase' = "done" /\ shown' = Render(items, photos)
    /\ polFound' = Append(polFound, polValid)
    /\ UNCHANGED <<polTree, cPos, polAttempts, polValid, photos, polDraws, besidesPol>>

\* The end of one iteration: the grid position, lookAtTree, rotSpeed and
\* arr.push; after the last one the component renders its items.
polPush ==
    /\ polPhase = "chaos"
    /\ polValid \/ polAttempts >= MaxPolaroidAttempts
    /\ LET item == [id |-> polI, treePos |-> polTree, chaosPos |-> cPos,
                    gridPos |-> GridPoint(polI),
                    lookAtTree |-> <<0, polTree[2], 0>>,
                    rotSpeed |-> RotSpeed(50, 50)]
           items == Append(arr, item)
       IN  /\ arr' = items
           /\ polI' = polI + 1
           /\ IF polI + 1 < COUNT
              THEN polPhase' = "tree" /\ shown' = shown
              ELSE polPhase' = "done" /\ shown' = Render(items, photos)
    /\ polFound' = Append(polFound, polValid)
    /\ UNCHANGED <<polTree, cPos, polAttempts, polValid, photos, polDraws, besidesPol>>

\* setPhotos(list) of the store, and the render of Polaroids that follows it.
setPhotos(list) ==
    /\ polPhase = "done"
    /\ photos' = list
    /\ shown' = Render(arr, list)
    /\ UNCHANGED <<arr, polI, polPhase, polTree, cPos, polAttempts, polValid,
                   polDraws, polFound, besidesPol>>

PolNext ==
    \/ polBegin
    \/ polAttempt
    \/ polPush
    \/ \E list \in PhotoLists : setPhotos(list)

SpecPolaroids == Init /\ [][PolNext]_vars

----------------------------------------------------------------------------
(* PhotoUploader                                                            *)
(*                                                                          *)
(* A file is known by the object URL that URL.createObjectURL hands out for *)
(* it: the n-th call returns Url(n).                                        *)

\* array.slice(0, end)
Slice(array, end) ==
    SubSeq(array, 1, IF end > Len(array) THEN Len(array) ELSE IF end < 0 THEN 0 ELSE end)

\* photos.filter((_, idx) => idx !== indexToRemove), idx counted from 0.
RECURSIVE FilterIndex(_, _, _)
FilterIndex(array, idx, indexToRemove) ==
    IF array = <<>> THEN <<>>
    ELSE (IF idx # indexToRemove THEN <<Head(array)>> ELSE <<>>)
             \o FilterIndex(Tail(array), idx + 1, indexToRemove)

\* History record of one operation of PhotoUploader: n is the number of files
\* of an upload and the index of a removal.
PhotoOp(name, n) == [op |-> name, n |-> n, before |-> photos, urls |-> objectUrls]

\* Faulty variant: every file of the selection is appended.
handleFileChange_NoSlice(k) ==
    /\ IF k > 0 /\ MAX_PHOTOS - Len(photos) > 0
       THEN LET newPhotoUrls == [j \in 1..k |-> Url(objectUrls + j)]
            IN  /\ photos' = photos \o newPhotoUrls
                /\ shown' = Render(arr, photos \o newPhotoUrls)
                /\ objectUrls' = objectUrls + k
       ELSE UNCHANGED <<photos, shown, objectUrls>>
    /\ photoLast' = PhotoOp("upload", k)
    /\ UNCHANGED <<arr, polI, polPhase, polTree, cPos, polAttempts, polValid,
                   polDraws, polFound, removals, besidesUp>>

\* handleFileChange for a selection of k files, and the render of Polaroids
\* that follows setPhotos.
handleFileChange(k) ==
    /\ IF k > 0 /\ MAX_PHOTOS - Len(photos) > 0
       THEN LET remainingSlots == MAX_PHOTOS - Len(photos)
                filesToProcess == Slice([j \in 1..k |-> objectUrls + j], remainingSlots)
                newPhotoUrls == [j \in 1..Len(filesToProcess) |-> Url(filesToProcess[j])]
            IN  /\ photos' = photos \o newPhotoUrls
                /\ shown' = Render(arr, photos \o newPhotoUrls)
                /\ objectUrls' = objectUrls + Len(filesToProcess)
       ELSE UNCHANGED <<photos, shown, objectUrls>>
    /\ photoLast' = PhotoOp("upload", k)
    /\ UNCHANGED <<arr, polI, polPhase, polTree, cPos, polAttempts, polValid,
                   polDraws, polFound, removals, besidesUp>>

\* handleRemovePhoto(indexToRemove), called by the button of a photo shown.
handleRemovePhoto(indexToRemove) ==
    /\ removals < MaxRemovals
    /\ indexToRemove < Len(photos)
    /\ photos' = FilterIndex(photos, 0, indexToRemove)
    /\ shown' = Render(arr, FilterIndex(photos, 0, indexToRemove))
    /\ removals' = removals + 1
    /\ photoLast' = PhotoOp("remove", indexToRemove)
    /\ UNCHANGED <<arr, polI, polPhase, polTree, cPos, polAttempts, polValid,
                   polDraws, polFound, objectUrls, besidesUp>>

\* The sizes of a selection of files: none, one, twelve, and more than fit.
UploadSizes == {0, 1, 12, 30}

PhotoNext ==
    \/ \E k \in UploadSizes : handleFileChange(k)
    \/ \E indexToRemove \in 0..(MAX_PHOTOS - 1) : handleRemovePhoto(indexToRemove)

SpecPhotos == Init /\ [][PhotoNext]_vars

----------------------------------------------------------------------------
(* The interpolation of the useFrame callbacks                              *)
(*                                                                          *)
(* delta is in milliseconds, a rate in tenths per second, and delta x rate  *)
(* a fraction <<numerator, denominator>> in lowest terms.  An accumulator   *)
(* is an integer in units of 2^-20, rounded to the nearest unit.            *)

RECURSIVE GCD(_, _)
GCD(a, b) == IF b = 0 THEN a ELSE GCD(b, a % b)

\* delta * rate
Times(delta, rate) ==
    <<(delta * rate) \div GCD(delta * rate, 10000), 10000 \div GCD(delta * rate, 10000)>>

RoundDiv(a, b) == (2 * a + b) \div (2 * b)

\* Faulty variant: half the step.
lerp_HalfStep(x, y, t) == x + RoundDiv((y - x) * t[1], 2 * t[2])

\* THREE.MathUtils.lerp(x, y, t) = (1 - t) * x + t * y
lerp(x, y, t) == x + RoundDiv((y - x) * t[1], t[2])

\* PolaroidFrame
targetScale(m) == IF m = "CHAOS" \/ m = "GRID" THEN (13 * MixOne) \div 10 ELSE 0
targetChaos(m) == IF m = "CHAOS" THEN MixOne ELSE 0

\* Faulty variant: the grid mix is driven in every mode but FORMED.
targetGrid_AnyButFormed(m) == IF m # "FORMED" THEN MixOne ELSE 0

targetGrid(m) == IF m = "GRID" THEN MixOne ELSE 0

\* Ornaments
targetLerpOrnaments(m) == IF m = "CHAOS" THEN MixOne ELSE 0

\* 2.0 * (1.0 - weight * 0.5)
physicsSpeed(weight) == (20 * (200 - weight)) \div 200

\* Star
targetLerpStar(m) == IF m = "CHAOS" THEN MixOne ELSE 0

\* TreeParticles
targetParticles(m) == IF m = "CHAOS" THEN MixOne ELSE 0

WeightOf(id) == (CHOOSE c \in {configs[k] : k \in 1..Len(configs)} : c.id = id).weight

Mixes ==
    [polLerpVal |-> polLerpVal, polGridLerpVal |-> polGridLerpVal,
     ornLerpVal |-> ornLerpVal, starLerpVal |-> starLerpVal,
     particlesLerpVal |-> particlesLerpVal]

\* The rates of the accumulators, in tenths per second.
Rates ==
    [polLerpVal |-> 25, polGridLerpVal |-> 25,
     ornLerpVal |-> [id \in ConfigIds |-> physicsSpeed(WeightOf(id))],
     starLerpVal |-> 15, particlesLerpVal |-> 20]

\* d * alpha rounded to the nearest thousandth, for a length d in thousandths
\* and a mix alpha in units of 2^-20: RoundDiv(d * alpha, MixOne), computed
\* on the two halves of alpha (1024 * 1024 = MixOne) to stay within 32 bits.
Scaled(d, alpha) ==
    (d * (alpha \div 1024) + (d * (alpha % 1024) + MixOne \div 2) \div 1024) \div 1024

\* Vector3.lerpVectors(v1, v2, alpha) = v1 + (v2 - v1) * alpha, by component.
lerpVectors(v1, v2, alpha) ==
    <<v1[1] + Scaled(v2[1] - v1[1], alpha), v1[2] + Scaled(v2[2] - v1[2], alpha),
      v1[3] + Scaled(v2[3] - v1[3], alpha)>>

\* Faulty variant: the grid position is blended in first and the chaos
\* position last, by the grid mix.
PolaroidPosition_GridFirst(data, lerpV, gridV) ==
    lerpVectors(lerpVectors(data.treePos, data.gridPos, gridV), data.chaosPos, gridV)

\* groupRef.current.position after a frame: basePos blended with gridPos.
PolaroidPosition(data, lerpV, gridV) ==
    lerpVectors(lerpVectors(data.treePos, data.chaosPos, lerpV), data.gridPos, gridV)

\* The rotation branch of PolaroidFrame, taken on the mixes the frame has just
\* written: gridLerpVal > 0.5 and lerpVal < 0.1.
Rotation(m, lerpV, gridV) ==
    IF m = "GRID" /\ 2 * gridV > MixOne THEN "lookAtCamera"
    ELSE IF m = "FORMED" /\ 10 * lerpV < MixOne THEN "lookOutward"
    ELSE "spin"

\* One frame: the useFrame callbacks of PolaroidFrame, Ornaments, Star and
\* TreeParticles, all called with the same delta.
Frame(delta) ==
    /\ polScaleVal' = lerp(polScaleVal, targetScale(mode), Times(delta, 40))
    /\ polLerpVal' = lerp(polLerpVal, targetChaos(mode), Times(delta, Rates.polLerpVal))
    /\ polGridLerpVal' = lerp(polGridLerpVal, targetGrid(mode), Times(delta, Rates.polGridLerpVal))
    /\ ornLerpVal' = [id \in ConfigIds |->
                         lerp(ornLerpVal[id], targetLerpOrnaments(mode),
                              Times(delta, Rates.ornLerpVal[id]))]
    /\ starLerpVal' = lerp(starLerpVal, targetLerpStar(mode), Times(delta, Rates.starLerpVal))
    /\ particlesLerpVal' = lerp(particlesLerpVal, targetParticles(mode),
                                Times(delta, Rates.particlesLerpVal))
    /\ frames' = frames + 1
    /\ lastFrame' = [delta |-> delta, mode |-> mode,
                     targets |-> [polChaos |-> targetChaos(mode), polGrid |-> targetGrid(mode),
                                  ornaments |-> targetLerpOrnaments(mode),
                                  star |-> targetLerpStar(mode),
                                  particles |-> targetParticles(mode)],
                     before |-> Mixes,
                     rotation |-> Rotation(mode,
                         lerp(polLerpVal, targetChaos(mode), Times(delta, Rates.polLerpVal)),
                         lerp(polGridLerpVal, targetGrid(mode),
                              Times(delta, Rates.polGridLerpVal)))]
    /\ UNCHANGED besidesMix

\* delta of a frame: 16 ms and 100 ms, and the 500 ms of a frame that was held up.
Deltas == {16, 100, 500}

renderFrame ==
    /\ frames < MaxFrames
    /\ \E delta \in Deltas : Frame(delta)

\* The store's setHandState called with a confirmed gesture that has a mode.
storeGesture(g) ==
    /\ setHandState([detected |-> TRUE, gesture |-> g])
    /\ UNCHANGED <<pendingGestureRef, gestureCountRef, lastOp, pre, streak, resetAge,
                   clsVars, lifeVars, sceneVars>>

MixNext ==
    \/ renderFrame
    \/ \E g \in {"OPEN", "FIST", "PINCH"} : storeGesture(g)

SpecMorph == Init /\ [][MixNext]_vars

\* delta of the frames of a steady run, with delta x rate <= 1 for every mix.
SteadyDeltas == {16, 100, 400}

\* A frame of a run in which the mode stays what the gesture made it and delta
\* stays what it was.
steadyFrame ==
    /\ mode # "FORMED"
    /\ frames < MaxSteadyFrames
    /\ \E delta \in SteadyDeltas :
           /\ frames = 0 \/ delta = lastFrame.delta
           /\ Frame(delta)

\* The gesture that starts the run, confirmed before the first frame.
steadyGesture ==
    /\ mode = "FORMED"
    /\ \E g \in {"OPEN", "PINCH"} : storeGesture(g)

SteadyNext ==
    \/ steadyGesture
    \/ steadyFrame

SpecSteady == Init /\ [][SteadyNext]_vars

\* A frame of the first SettleFrom frames, while the mode still changes.
disturbFrame ==
    /\ frames < SettleFrom
    /\ \E delta \in Deltas : Frame(delta)

\* A gesture confirmed before the run of one mode starts.
disturbGesture ==
    /\ frames <= SettleFrom
    /\ \E g \in {"OPEN", "FIST", "PINCH"} : storeGesture(g)

\* A frame of the run in which the mode stays fixed; delta x 2.5 is at most 1
\* and stays what it was in the first frame of the run.
settleFrame ==
    /\ frames >= SettleFrom
    /\ frames < SettleFrom + MaxSteadyFrames
    /\ \E delta \in SteadyDeltas :
           /\ frames = SettleFrom \/ delta = lastFrame.delta
           /\ Frame(delta)

SettleNext ==
    \/ disturbFrame
    \/ disturbGesture
    \/ settleFrame

\* The render loop calls useFrame on every frame: a frame that can run does.
SpecSettle ==
    Init /\ [][SettleNext]_vars /\ WF_vars(disturbFrame) /\ WF_vars(settleFrame)

----------------------------------------------------------------------------
(* TreeGroup: drag and inertia                                              *)
(*                                                                          *)
(* Angles and velocity are integers in units of 1e-6 rad, clientX is in     *)
(* pixels, delta in milliseconds.                                           *)

\* deltaX * 0.005
Sensitivity(deltaX) == deltaX * 5000

Abs(v) == IF v < 0 THEN -v ELSE v

\* Faulty variant: the friction is 0.9.
friction_Ninety(v) == RoundDiv(v * 90, 100)

\* velocity.current *= 0.95
friction(v) == RoundDiv(v * 95, 100)

Controller ==
    [isDragging |-> isDragging, previousMouseX |-> previousMouseX,
     velocity |-> velocity, rotationY |-> rotationY]

\* History record of one operation of the controller: x is the clientX of a
\* pointer event and the delta of a frame.
DragOp(name, x) ==
    [op |-> name, x |-> x, gesture |-> handState.gesture, override |-> override,
     before |-> Controller]

\* clientX of the pointer events.
ClientXs == {100, 200}

\* Faulty variant: a grab keeps the stored velocity.
handlePointerDown_KeepsVelocity(x) ==
    /\ pointerEvents < MaxPointerEvents
    /\ isDragging' = TRUE
    /\ previousMouseX' = x
    /\ pointerEvents' = pointerEvents + 1
    /\ dragLast' = DragOp("pointerdown", x)
    /\ coast' = [coast EXCEPT !.on = FALSE]
    /\ UNCHANGED <<velocity, rotationY, gestureWrites, victoryFrames, override, besidesDrag>>

handlePointerDown(x) ==
    /\ pointerEvents < MaxPointerEvents
    /\ isDragging' = TRUE
    /\ previousMouseX' = x
    /\ velocity' = 0
    /\ pointerEvents' = pointerEvents + 1
    /\ dragLast' = DragOp("pointerdown", x)
    /\ coast' = [coast EXCEPT !.on = FALSE]
    /\ UNCHANGED <<rotationY, gestureWrites, victoryFrames, override, besidesDrag>>

\* Faulty variant: a move rotates the tree whether or not it is dragged.
handlePointerMove_AlwaysDrags(x) ==
    /\ pointerEvents < MaxPointerEvents
    /\ velocity' = Sensitivity(x - previousMouseX)
    /\ rotationY' = rotationY + Sensitivity(x - previousMouseX)
    /\ previousMouseX' = x
    /\ pointerEvents' = pointerEvents + 1
    /\ dragLast' = DragOp("pointermove", x)
    /\ coast' = [coast EXCEPT !.on = FALSE]
    /\ UNCHANGED <<isDragging, gestureWrites, victoryFrames, override, besidesDrag>>

handlePointerMove(x) ==
    /\ pointerEvents < MaxPointerEvents
    /\ IF isDragging
       THEN /\ velocity' = Sensitivity(x - previousMouseX)
            /\ rotationY' = rotationY + Sensitivity(x - previousMouseX)
            /\ previousMouseX' = x
       ELSE UNCHANGED <<velocity, rotationY, previousMouseX>>
    /\ pointerEvents' = pointerEvents + 1
    /\ dragLast' = DragOp("pointermove", x)
    /\ coast' = [coast EXCEPT !.on = FALSE]
    /\ UNCHANGED <<isDragging, gestureWrites, victoryFrames, override, besidesDrag>>

\* The handler of pointerup and of pointercancel.
handlePointerUp(event) ==
    /\ pointerEvents < MaxPointerEvents
    /\ isDragging' = FALSE
    /\ pointerEvents' = pointerEvents + 1
    /\ dragLast' = DragOp(event, 0)
    /\ coast' = [on |-> TRUE, v0 |-> velocity, k |-> 0,
                 low |-> Abs(velocity), high |-> Abs(velocity)]
    /\ UNCHANGED <<previousMouseX, velocity, rotationY, gestureWrites, victoryFrames,
                   override, besidesDrag>>

\* Faulty variant: a drag in progress keeps the gesture from rotating the tree.
treeFrame_DragFirst(delta) ==
    /\ IF handState.gesture = "VICTORY" /\ ~isDragging
       THEN /\ victoryFrames < MaxVictoryFrames
            /\ rotationY' = rotationY - delta * 300
            /\ velocity' = 0
            /\ victoryFrames' = victoryFrames + 1
            /\ coast' = [coast EXCEPT !.on = FALSE]
       ELSE IF ~isDragging
       THEN IF Abs(velocity) > 100
            THEN /\ rotationY' = rotationY + velocity
                 /\ velocity' = friction(velocity)
                 /\ coast' = [coast EXCEPT !.k = @ + 1,
                                            !.low = (@ * 95) \div 100,
                                            !.high = (@ * 95 + 99) \div 100]
                 /\ UNCHANGED victoryFrames
            ELSE /\ velocity' = 0
                 /\ coast' = [coast EXCEPT !.on = FALSE]
                 /\ UNCHANGED <<rotationY, victoryFrames>>
       ELSE UNCHANGED <<rotationY, velocity, victoryFrames, coast>>
    /\ dragLast' = DragOp("frame", delta)
    /\ override' = IF override = "ended" THEN "none" ELSE override
    /\ UNCHANGED <<isDragging, previousMouseX, pointerEvents, gestureWrites, besidesDrag>>

\* Faulty variant: a velocity at or below the threshold is left as it is.
treeFrame_KeepsResidue(delta) ==
    /\ IF handState.gesture = "VICTORY"
       THEN /\ victoryFrames < MaxVictoryFrames
            /\ rotationY' = rotationY - delta * 300
            /\ velocity' = 0
            /\ victoryFrames' = victoryFrames + 1
            /\ coast' = [coast EXCEPT !.on = FALSE]
       ELSE IF ~isDragging
       THEN IF Abs(velocity) > 100
            THEN /\ rotationY' = rotationY + velocity
                 /\ velocity' = friction(velocity)
                 /\ coast' = [coast EXCEPT !.k = @ + 1,
                                            !.low = (@ * 95) \div 100,
                                            !.high = (@ * 95 + 99) \div 100]
                 /\ UNCHANGED victoryFrames
            ELSE /\ coast' = [coast EXCEPT !.on = FALSE]
                 /\ UNCHANGED <<velocity, rotationY, victoryFrames>>
       ELSE UNCHANGED <<rotationY, velocity, victoryFrames, coast>>
    /\ dragLast' = DragOp("frame", delta)
    /\ override' = IF override = "ended" THEN "none" ELSE override
    /\ UNCHANGED <<isDragging, previousMouseX, pointerEvents, gestureWrites, besidesDrag>>

\* useFrame of TreeGroup; the history keeps the delta of the frame.
treeFrame(delta) ==
    /\ IF handState.gesture = "VICTORY"
       THEN /\ victoryFrames < MaxVictoryFrames
            /\ rotationY' = rotationY - delta * 300
            /\ velocity' = 0
            /\ victoryFrames' = victoryFrames + 1
            /\ coast' = [coast EXCEPT !.on = FALSE]
       ELSE IF ~isDragging
       THEN IF Abs(velocity) > 100
            THEN /\ rotationY' = rotationY + velocity
                 /\ velocity' = friction(velocity)
                 /\ coast' = [coast EXCEPT !.k = @ + 1,
                                            !.low = (@ * 95) \div 100,
                                            !.high = (@ * 95 + 99) \div 100]
                 /\ UNCHANGED victoryFrames
            ELSE /\ velocity' = 0
                 /\ coast' = [coast EXCEPT !.on = FALSE]
                 /\ UNCHANGED <<rotationY, victoryFrames>>
       ELSE UNCHANGED <<rotationY, velocity, victoryFrames, coast>>
    /\ dragLast' = DragOp("frame", delta)
    /\ override' = IF override = "ended" THEN "none" ELSE override
    /\ UNCHANGED <<isDragging, previousMouseX, pointerEvents, gestureWrites, besidesDrag>>

\* delta of the frames of TreeGroup.
TreeDeltas == {16, 100}

\* The store is handed a confirmed VICTORY, or a confirmed NONE after it.
treeGesture(g) ==
    /\ gestureWrites < MaxGestureWrites
    /\ g # handState.gesture
    /\ setHandState([detected |-> TRUE, gesture |-> g])
    /\ gestureWrites' = gestureWrites + 1
    /\ coast' = [coast EXCEPT !.on = @ /\ g # "VICTORY"]
    /\ override' = IF g = "VICTORY" THEN "active"
                   ELSE IF handState.gesture = "VICTORY" THEN "ended"
                   ELSE override
    /\ UNCHANGED <<pendingGestureRef, gestureCountRef, lastOp, pre, streak, resetAge,
                   clsVars, lifeVars, ornVars, polVars, mixVars, upVars,
                   isDragging, previousMouseX, velocity, rotationY, pointerEvents,
                   victoryFrames, dragLast>>

DragNext ==
    \/ \E x \in ClientXs : handlePointerDown(x)
    \/ \E x \in ClientXs : handlePointerMove(x)
    \/ \E event \in {"pointerup", "pointercancel"} : handlePointerUp(event)
    \/ \E delta \in TreeDeltas : treeFrame(delta)
    \/ \E g \in {"VICTORY", "NONE"} : treeGesture(g)

SpecDrag == Init /\ [][DragNext]_vars

\* No gesture reaches the store: the tree is driven by the pointer alone.
CoastNext ==
    \/ \E x \in ClientXs : handlePointerDown(x)
    \/ \E x \in ClientXs : handlePointerMove(x)
    \/ \E event \in {"pointerup", "pointercancel"} : handlePointerUp(event)
    \/ \E delta \in TreeDeltas : treeFrame(delta)

\* The render loop calls useFrame on every frame for as long as the canvas is
\* mounted: a frame that can run does run.
SpecCoast ==
    Init /\ [][CoastNext]_vars /\ WF_vars(\E delta \in TreeDeltas : treeFrame(delta))

----------------------------------------------------------------------------
(* Mode state machine: toggleMode *)

\* C1 (as stated): a manual toggle applied in mode GRID leaves mode = CHAOS,
\* whatever the HandState.
C1_ToggleFromGridYieldsChaos ==
    (lastOp.op = "toggleMode" /\ pre.mode = "GRID") => mode = "CHAOS"

\* C1 (amended): a manual toggle applied in mode GRID leaves mode = FORMED,
\* whatever the HandState.
C1_ToggleFromGridYieldsFormed ==
    (lastOp.op = "toggleMode" /\ pre.mode = "GRID") => mode = "FORMED"

C1_Witness ==
    /\ lastOp.op = "toggleMode"
    /\ pre.mode = "GRID"
    /\ pre.handState.detected
    /\ pre.handState.gesture = "PINCH"
    /\ mode = "FORMED"

\* C2: toggleMode maps FORMED to CHAOS and CHAOS to FORMED in every state,
\* detected or not and whatever the gesture, and leaves handState unchanged.
C2_ToggleFlipsFormedAndChaos ==
    lastOp.op = "toggleMode" =>
        /\ pre.mode = "FORMED" => mode = "CHAOS"
        /\ pre.mode = "CHAOS" => mode = "FORMED"
        /\ handState = pre.handState

C2_Witness ==
    /\ lastOp.op = "toggleMode"
    /\ pre.mode = "CHAOS"
    /\ mode = "FORMED"
    /\ handState.detected
    /\ handState.gesture = "OPEN"

----------------------------------------------------------------------------
(* Mode state machine: setHandState *)

\* The documented transition table.
TableMode(m, gesture) ==
    IF gesture = "OPEN" THEN "CHAOS"
    ELSE IF gesture = "FIST" THEN "FORMED"
    ELSE IF gesture = "PINCH" THEN "GRID"
    ELSE m

IsUpdate == lastOp.op \in {"hand", "nohand"}

\* C3: after a setHandState update whose resulting HandState has
\* detected = true, mode is CHAOS for OPEN, FORMED for FIST, GRID for PINCH
\* and the previous mode for VICTORY and NONE, from every previous mode.
C3_GestureTransitionTable ==
    (IsUpdate /\ handState.detected) =>
        /\ handState.gesture \in GestureType
        /\ mode = TableMode(pre.mode, handState.gesture)

C3_Witness ==
    /\ lastOp.op = "hand"
    /\ handState.detected
    /\ pre.mode = "GRID"
    /\ pre.handState.gesture = "PINCH"
    /\ handState.gesture = "OPEN"
    /\ mode = "CHAOS"

\* C4: a setHandState update whose resulting HandState has detected = false
\* leaves mode unchanged, whatever gesture was confirmed before.
C4_UndetectedKeepsMode ==
    (IsUpdate /\ ~handState.detected) => mode = pre.mode

C4_Witness ==
    /\ lastOp.op = "nohand"
    /\ ~handState.detected
    /\ pre.handState.detected
    /\ pre.handState.gesture = "OPEN"
    /\ pre.mode = "FORMED"
    /\ mode = "FORMED"

----------------------------------------------------------------------------
(* Debounce filter *)

\* C5 (as stated): in a run of consecutive hand-detected samples all
\* classified as L, the 6th sample's update writes gesture = L, from every
\* prior debounce state.
C5_SixthSampleConfirms ==
    (lastOp.op = "hand" /\ streak.len = 6) =>
        (lastOp.wrote /\ handState.gesture = streak.label)

\* C5 (amended): in such a run the 7th and every later sample's update writes
\* gesture = L from every prior debounce state; the 6th writes it exactly
\* when the pending candidate before the run was already L.
C5_SeventhSampleConfirms ==
    lastOp.op = "hand" =>
        /\ streak.len >= 7 => (lastOp.wrote /\ handState.gesture = streak.label)
        /\ streak.len = 6 => (lastOp.wrote <=> streak.primed)
        /\ lastOp.wrote => handState.gesture = streak.label

C5_Witness ==
    /\ lastOp.op = "hand"
    /\ streak.len = 7
    /\ ~streak.primed
    /\ streak.label = "FIST"
    /\ lastOp.wrote
    /\ handState.gesture = "FIST"
    /\ pre.handState.gesture # "FIST"

\* Identical hand-detected samples processed without interruption since the
\* run began, not counting a first sample that was itself the mismatch.
FurtherIdentical == streak.len - (IF streak.primed THEN 0 ELSE 1)

MismatchResets ==
    (lastOp.op = "hand" /\ lastOp.label # pre.pending) =>
        /\ pendingGestureRef = lastOp.label
        /\ gestureCountRef = 0

\* C6 (as stated): a hand-detected sample whose label differs from the
\* pending candidate makes the candidate the new label and the count 0, and
\* after it no update writes the gesture field of HandState before 6 further
\* identical samples have been processed; a write is counted only when it
\* changes the value of the field.
C6_NoGestureWriteAfterMismatch ==
    /\ MismatchResets
    /\ (IsUpdate /\ lastOp.wrote /\ handState.gesture # pre.handState.gesture
            /\ resetAge >= 0) => resetAge >= 6

\* C6 (amended): such a sample makes the candidate the new label and the
\* count 0, and after it no hand-detected update writes the gesture field
\* before 6 further consecutive identical samples have been processed; a
\* no-hand update writes gesture = NONE whenever it comes.
C6_NoConfirmationAfterMismatch ==
    /\ MismatchResets
    /\ (lastOp.op = "hand" /\ lastOp.label # pre.pending) =>
          (~lastOp.wrote /\ handState.gesture = pre.handState.gesture)
    /\ (lastOp.op = "hand" /\ lastOp.wrote /\ resetAge >= 0) =>
          (resetAge >= 6 /\ FurtherIdentical >= 6)
    /\ lastOp.op = "nohand" => (lastOp.wrote /\ handState.gesture = "NONE")

C6_Witness ==
    /\ lastOp.op = "hand"
    /\ lastOp.wrote
    /\ resetAge = 6
    /\ FurtherIdentical = 6
    /\ pre.count = 5
    /\ handState.gesture # pre.handState.gesture

\* C7: every hand-detected update sets detected and replaces position and
\* landmarks by the current sample's; while the count does not exceed 5 it
\* keeps the previously confirmed gesture.
C7_UnconfirmedKeepsGestureForwardsPosition ==
    lastOp.op = "hand" =>
        /\ handState.detected
        /\ handState.landmarks = lastOp.sample
        /\ handState.position = << 100 - 2 * lastOp.sample[9][1],
                                   100 - 2 * lastOp.sample[9][2] >>
        /\ gestureCountRef <= 5 => handState.gesture = pre.handState.gesture

C7_Witness ==
    /\ lastOp.op = "hand"
    /\ gestureCountRef <= 5
    /\ lastOp.label = "FIST"
    /\ pre.handState.gesture = "OPEN"
    /\ handState.gesture = "OPEN"
    /\ handState.landmarks # pre.handState.landmarks
    /\ handState.position # pre.handState.position

\* C8: a detector update that reports no hand leaves detected = false,
\* gesture = NONE, landmarks = [] and the consecutive count 0, from every
\* prior HandState and debounce state.
C8_NoHandResets ==
    lastOp.op = "nohand" =>
        /\ handState.detected = FALSE
        /\ handState.gesture = "NONE"
        /\ handState.landmarks = <<>>
        /\ gestureCountRef = 0

C8_Witness ==
    /\ lastOp.op = "nohand"
    /\ pre.handState.detected
    /\ pre.handState.gesture = "VICTORY"
    /\ pre.count > 5
    /\ handState.gesture = "NONE"
    /\ gestureCountRef = 0

----------------------------------------------------------------------------
(* Landmark classifier *)

\* <<tip, joint>> of thumb, index, middle, ring, pinky.
FingerJoints == {<<4, 3>>, <<8, 6>>, <<12, 10>>, <<16, 14>>, <<20, 18>>}

NumExtended(landmarks) ==
    Cardinality({f \in FingerJoints : Extended(landmarks, f[1], f[2])})

RawVictory(landmarks) ==
    /\ Extended(landmarks, 8, 6) /\ Extended(landmarks, 12, 10)
    /\ ~Extended(landmarks, 16, 14) /\ ~Extended(landmarks, 20, 18)

Combo(landmarks) ==
    << isThumbUp(landmarks), isIndexUp(landmarks), isMiddleUp(landmarks),
       isRingUp(landmarks), isPinkyUp(landmarks), isPinch(landmarks) >>

\* The samples of the classifier specification realise all 64 combinations.
AllCombosCovered ==
    \A c \in [1..6 -> BOOLEAN] : \E lm \in ClsInputs : Combo(lm) = c

\* C9: the classifier returns OPEN if and only if at least 4 fingers are
\* extended, also for samples that satisfy the raw PINCH predicate.
C9_OpenIffFourFingers ==
    clsGesture # "unset" =>
        (clsGesture = "OPEN" <=> NumExtended(clsLandmarks) >= 4)

C9_Witness ==
    /\ clsGesture = "OPEN"
    /\ isPinch(clsLandmarks)
    /\ NumExtended(clsLandmarks) = 4

\* C10: the classifier is total and follows OPEN > VICTORY > PINCH > FIST >
\* NONE: below 4 extended fingers it returns VICTORY iff index and middle
\* are extended and ring and pinky are not, otherwise PINCH iff pinch holds,
\* otherwise FIST iff at most 1 finger is extended, otherwise NONE.
C10_ClassifierPriorityOrder ==
    clsGesture # "unset" =>
        LET n == NumExtended(clsLandmarks)
            v == RawVictory(clsLandmarks)
            p == isPinch(clsLandmarks)
        IN  /\ clsGesture \in GestureType
            /\ n >= 4 => clsGesture = "OPEN"
            /\ n < 4 => (clsGesture = "VICTORY" <=> v)
            /\ (n < 4 /\ ~v) => (clsGesture = "PINCH" <=> p)
            /\ (n < 4 /\ ~v /\ ~p) => (clsGesture = "FIST" <=> n <= 1)
            /\ (n < 4 /\ ~v /\ ~p /\ n > 1) => clsGesture = "NONE"

C10_Witness ==
    /\ AllCombosCovered
    /\ clsGesture = "VICTORY"
    /\ isPinch(clsLandmarks)
    /\ isThumbUp(clsLandmarks)

----------------------------------------------------------------------------
(* Ornament layout: collisions *)

\* The formed positions config number c holds: groups[config.id] once the
\* config is finished, the list being filled while it is processed.
OrnamentLists(c) ==
    IF c < ornCfg THEN groups[configs[c].id]
    ELSE IF c = ornCfg
         THEN [targetPositions |-> targetPositions, chaosPositions |-> chaosPositions,
               randomRotations |-> randomRotations]
         ELSE [targetPositions |-> <<>>, chaosPositions |-> <<>>, randomRotations |-> <<>>]

\* The accepted ornaments, <<config number, index>>.
OrnamentEntries ==
    UNION {{<<c, k>> : k \in 1..Len(OrnamentLists(c).targetPositions)} : c \in 1..Len(configs)}

\* radius = scale x 1.1, in thousandths.
EntryRadius(e) == (configs[e[1]].scale * 11) \div 10

EntryPos(e) == OrnamentLists(e[1]).targetPositions[e[2]]

\* C11: any two accepted ornament formed positions, of the same category or of
\* two different ones among gold, red, silver and box, are at least the sum of
\* their radii apart (radius = scale x 1.1), so the positions accepted for the
\* earlier categories are obstacles for the later ones.
C11_OrnamentsKeepDistance ==
    \A e1 \in OrnamentEntries, e2 \in OrnamentEntries :
        e1 # e2 =>
            VDist2(EntryPos(e1), EntryPos(e2))
                >= (EntryRadius(e1) + EntryRadius(e2)) * (EntryRadius(e1) + EntryRadius(e2))

\* A red ornament is placed after a candidate of it was rejected, with two
\* gold ornaments on the tree.
C11_Witness ==
    /\ ornLast.step = "placed"
    /\ ornLast.cfg = 2
    /\ ornLast.attempts > 1
    /\ Len(groups["gold"].targetPositions) = 2
    /\ Len(OrnamentLists(2).targetPositions) >= 1

----------------------------------------------------------------------------
(* Ornament layout: the attempt budget *)

RECURSIVE CountFrom(_)
CountFrom(c) == IF c > Len(configs) THEN 0 ELSE configs[c].count + CountFrom(c + 1)

\* Steps the generator can still take: 101 for every entity not yet finished,
\* less the attempts the current one has used.
OrnVariant ==
    IF ornCfg > Len(configs) THEN 0
    ELSE (CountFrom(ornCfg) - ornI) * (MaxOrnamentAttempts + 1) - ornAttempts

OrnBudgetKept ==
    /\ ornAttempts <= 100
    /\ \A c \in 1..Len(configs) :
           /\ Len(OrnamentLists(c).targetPositions) <= configs[c].count
           /\ Len(OrnamentLists(c).chaosPositions) = Len(OrnamentLists(c).targetPositions)
           /\ Len(OrnamentLists(c).randomRotations) = Len(OrnamentLists(c).targetPositions)
    /\ ornLast.step = "dropped" =>
           /\ ornLast.attempts = 100
           /\ Len(OrnamentLists(ornLast.cfg).targetPositions) = ornLast.before.target
           /\ Len(OrnamentLists(ornLast.cfg).chaosPositions) = ornLast.before.chaos
           /\ Len(OrnamentLists(ornLast.cfg).randomRotations) = ornLast.before.rot
           /\ Len(occupiedPositions) = ornLast.before.occupied
    /\ ornLast.step = "placed" =>
           /\ ornLast.attempts \in 1..100
           /\ Len(OrnamentLists(ornLast.cfg).targetPositions) = ornLast.before.target + 1
           /\ Len(occupiedPositions) = ornLast.before.occupied + 1
    /\ \A e1 \in OrnamentEntries, e2 \in OrnamentEntries :
           e1 # e2 =>
               VDist2(EntryPos(e1), EntryPos(e2))
                   >= (EntryRadius(e1) + EntryRadius(e2)) * (EntryRadius(e1) + EntryRadius(e2))
    /\ ornCfg <= Len(configs) =>
           \/ ~ornValid /\ ornAttempts < 100
           \/ ornValid \/ ornAttempts >= 100

\* C13: an ornament gets at most 100 candidates; when none of them is free of
\* collisions the ornament is dropped and nothing is recorded for it; every
\* category holds at most the requested count, and only collision-free
\* positions; and the generator terminates whatever the draws are: while it
\* is not done it has a step to take, and every step lowers OrnVariant.
C13_AttemptBudget ==
    /\ []OrnBudgetKept
    /\ [][OrnVariant' < OrnVariant /\ OrnVariant' >= 0]_ornVars

\* An ornament was dropped after its 100th candidate, and the generator went
\* on to finish all four categories.
C13_Witness ==
    /\ ornLast.step = "dropped"
    /\ ornLast.attempts = 100
    /\ ornCfg > Len(configs)

----------------------------------------------------------------------------
(* Polaroids: formed positions *)

\* C12 as stated: the formed position of every polaroid is at least the sum
\* of the two radii from every entity accepted before it.  Between two
\* polaroids the sum of the radii is MIN_DIST, the distance between centres
\* the component itself takes for two frames not to overlap.
C12_PolaroidsKeepDistance ==
    \A j \in 1..Len(arr), k \in 1..Len(arr) :
        j < k => VDist2(arr[j].treePos, arr[k].treePos) >= 2400 * 2400

\* C12, amended: the formed position of a polaroid is not tested against
\* anything.  Every item gets the cone point of its one draw
\* (r = (1 - yNorm) x 5 + 1.5, y = (yNorm - 0.5) x 14), whatever positions
\* were accepted before it, and no item is dropped.
C12_PolaroidsTakeFirstDraw ==
    /\ Len(arr) = polI
    /\ Len(polDraws) = polI + (IF polPhase = "chaos" THEN 1 ELSE 0)
    /\ \A k \in 1..Len(arr) :
           LET yNorm == polDraws[k][1]
               angle == polDraws[k][2]
               r == (100 - yNorm) * 50 + 1500
           IN  arr[k].treePos =
                   <<(r * Cos(angle)) \div 1000, (yNorm - 50) * 140, (r * Sin(angle)) \div 1000>>

\* All 25 items are generated, and two of them have formed positions 0.3
\* apart.
C12_Witness ==
    /\ polPhase = "done"
    /\ \E j \in 1..Len(arr), k \in 1..Len(arr) :
           /\ j < k
           /\ arr[j].treePos # arr[k].treePos
           /\ VDist2(arr[j].treePos, arr[k].treePos) < 300 * 300

----------------------------------------------------------------------------
(* Polaroids: the grid *)

GridXs == {-3500, -1750, 0, 1750, 3500}
GridYs == {7100, 5000, 2900, 800, -1300}

\* C14: item i of the 25 is in column i mod 5 and row floor(i / 5) of a grid
\* of 5 rows of 5; its grid x is startX + column x 1.75, the five values being
\* symmetric about 0, and its grid y is startY - row x 2.1, the five values
\* being symmetric about 2.9; the 25 grid positions are pairwise distinct.
C14_GridLayout ==
    /\ \A k \in 1..Len(arr) :
           LET i == arr[k].id
               g == arr[k].gridPos
           IN  /\ i = k - 1
               /\ g[1] = -3500 + (i % 5) * 1750
               /\ g[2] = 7100 - (i \div 5) * 2100
               /\ g[1] \in GridXs /\ -g[1] \in GridXs
               /\ g[2] \in GridYs /\ (2 * 2900 - g[2]) \in GridYs
    /\ \A j \in 1..Len(arr), k \in 1..Len(arr) :
           j # k => arr[j].gridPos # arr[k].gridPos
    /\ polPhase = "done" =>
           /\ Len(arr) = 25
           /\ \A x \in GridXs : Cardinality({k \in 1..25 : arr[k].gridPos[1] = x}) = 5
           /\ \A y \in GridYs : Cardinality({k \in 1..25 : arr[k].gridPos[2] = y}) = 5

\* The grid is complete; its last item is in the last column of the last row.
C14_Witness ==
    /\ polPhase = "done"
    /\ arr[25].gridPos = <<3500, -1300, 8000>>
    /\ arr[1].gridPos = <<-3500, 7100, 8000>>

----------------------------------------------------------------------------
(* Polaroids: slots and photos *)

\* C15: there are always exactly 25 polaroid slots, with ids 0..24, whatever
\* the collision attempts gave and whatever the photo list is; with a photo
\* list of length n in 0..25, slot i shows photos[i] when i < n and the
\* placeholder when i >= n.
C15_SlotsAndPhotos ==
    polPhase = "done" =>
        /\ Len(arr) = 25
        /\ Len(shown) = 25
        /\ Len(photos) \in 0..25
        /\ \A i \in 0..24 :
               /\ arr[i + 1].id = i
               /\ shown[i + 1].key = i
               /\ shown[i + 1].url =
                      IF i < Len(photos) THEN photos[i + 1]
                      ELSE "https://picsum.photos/200/200"

\* Three photos are shown in slots 0..2 and the placeholder in slot 3, and one
\* item kept a chaos position that collides with an earlier one.
C15_Witness ==
    /\ polPhase = "done"
    /\ Len(photos) = 3
    /\ shown[3].url = photos[3]
    /\ shown[4].url = Placeholder
    /\ \E j \in 1..Len(arr), k \in 1..Len(arr) :
           j < k /\ VDist2(arr[j].chaosPos, arr[k].chaosPos) < MIN_DIST * MIN_DIST

----------------------------------------------------------------------------
(* Interpolation targets *)

\* C16: in every frame the chaos-mix target is 1 exactly when the mode is
\* CHAOS and the grid-mix target, which only the polaroids have, is 1 exactly
\* when the mode is GRID, so at most one of the two is 1; ornaments, star and
\* particles have a chaos mix only, whose target is 0, the formed layout, in
\* FORMED and in GRID.
C16_TargetsFollowMode ==
    lastFrame.mode # "none" =>
        LET m == lastFrame.mode
            t == lastFrame.targets
            chaos == IF m = "CHAOS" THEN 1048576 ELSE 0
        IN  /\ t.polChaos = chaos
            /\ t.polGrid = (IF m = "GRID" THEN 1048576 ELSE 0)
            /\ ~(t.polChaos = 1048576 /\ t.polGrid = 1048576)
            /\ t.ornaments = chaos
            /\ t.star = chaos
            /\ t.particles = chaos
            /\ m \in {"FORMED", "GRID"} => t.ornaments = 0 /\ t.star = 0 /\ t.particles = 0

\* A frame in GRID moved the grid mix of the polaroids up while the ornaments
\* were driven to the formed layout, after a frame in CHAOS.
C16_Witness ==
    /\ lastFrame.mode = "GRID"
    /\ lastFrame.targets.polGrid = MixOne
    /\ lastFrame.targets.ornaments = 0
    /\ polGridLerpVal > lastFrame.before.polGridLerpVal
    /\ lastFrame.before.polLerpVal > 0

----------------------------------------------------------------------------
(* Interpolation: convergence *)

\* The accumulators whose target is 1 in mode m, as <<value, value before the
\* last frame, rate>>.
Driven(m) ==
    IF m = "CHAOS"
    THEN {<<polLerpVal, lastFrame.before.polLerpVal, 25>>,
          <<starLerpVal, lastFrame.before.starLerpVal, 15>>,
          <<particlesLerpVal, lastFrame.before.particlesLerpVal, 20>>}
         \cup {<<ornLerpVal[id], lastFrame.before.ornLerpVal[id],
                 IF id = "box" THEN 12 ELSE 18>> : id \in ConfigIds}
    ELSE IF m = "GRID"
    THEN {<<polGridLerpVal, lastFrame.before.polGridLerpVal, 25>>}
    ELSE {}

\* Frames after which a mix is within 1e-3 of 1: 7 / (dt x rate), rounded up;
\* dr is dt x rate in units of 1/10000.
FramesToConverge(dr) == (70000 + dr - 1) \div dr

\* C17: from mix = 0 with target 1 and a fixed dt with 0 < dt x rate <= 1, the
\* update mix := mix + (target - mix) x dt x rate never lowers the mix, and
\* the mix is within 1e-3 of 1 after a number of frames that depends on
\* dt x rate only.
C17_MixConverges ==
    lastFrame.mode # "none" =>
        \A a \in Driven(lastFrame.mode) :
            LET dr == lastFrame.delta * a[3]
            IN  (0 < dr /\ dr <= 10000) =>
                    /\ a[1] >= a[2]
                    /\ a[1] <= 1048576
                    /\ frames >= FramesToConverge(dr) => 1048576 - a[1] <= 1048

\* The chaos mix of the polaroids with dt = 16 ms (dt x rate = 0.04) at the
\* frame of the bound, within 1e-3 of 1, still rising and not yet 1.
C17_Witness ==
    /\ lastFrame.mode = "CHAOS"
    /\ lastFrame.delta = 16
    /\ frames = FramesToConverge(16 * 25)
    /\ MixOne - polLerpVal <= 1048
    /\ polLerpVal < MixOne
    /\ polLerpVal > lastFrame.before.polLerpVal

----------------------------------------------------------------------------
(* Interpolation: range *)

\* C18: every mix accumulator, the chaos mix of ornaments, star, particles and
\* polaroids and the grid mix of the polaroids, is in [0, 1] after every
\* frame, whatever the mode changes and whatever delta the renderer supplies.
C18_MixesStayInUnitInterval ==
    /\ polLerpVal \in 0..MixOne
    /\ polGridLerpVal \in 0..MixOne
    /\ \A id \in ConfigIds : ornLerpVal[id] \in 0..MixOne
    /\ starLerpVal \in 0..MixOne
    /\ particlesLerpVal \in 0..MixOne

----------------------------------------------------------------------------
(* Drag *)

\* C19: a pointer-move changes the rotation and the stored velocity if and
\* only if the controller is dragging.  While dragging, with d the current
\* pointer X less the last recorded X, the velocity becomes d x 0.005, the
\* rotation grows by exactly that velocity, and the recorded X becomes the
\* current X (d = 100 gives rotation + 0.5 and velocity 0.5); when not
\* dragging nothing of the controller changes.
C19_PointerMoveWhileDragging ==
    dragLast.op = "pointermove" =>
        LET b == dragLast.before
            d == dragLast.x - b.previousMouseX
        IN  IF b.isDragging
            THEN /\ velocity = d * 5000
                 /\ rotationY = b.rotationY + d * 5000
                 /\ previousMouseX = dragLast.x
                 /\ isDragging
                 /\ d = 100 => velocity = 500000 /\ rotationY - b.rotationY = 500000
            ELSE Controller = b

\* A move of 100 pixels while dragging.
C19_Witness ==
    /\ dragLast.op = "pointermove"
    /\ dragLast.before.isDragging
    /\ dragLast.x - dragLast.before.previousMouseX = 100
    /\ velocity = 500000
    /\ rotationY = dragLast.before.rotationY + 500000

----------------------------------------------------------------------------
(* Inertia *)

\* C20: pointer-up and pointer-cancel end the dragging and leave the velocity
\* as it is.  After that, with no VICTORY gesture and no pointer event, every
\* frame with |velocity| > 1e-4 adds the velocity to the rotation and then
\* multiplies the velocity by 0.95, so after k such frames the velocity is
\* v0 x 0.95^k: exactly for k <= 2 when the fixed point holds v0 x 0.95^k
\* exactly, and for every k within the interval [coast.low, coast.high] that holds
\* |v0| x 0.95^k, whose ends are at most 2e-5 apart.
C20_ReleaseKeepsVelocityThenDecays ==
    /\ dragLast.op \in {"pointerup", "pointercancel"} =>
           /\ ~isDragging
           /\ velocity = dragLast.before.velocity
           /\ rotationY = dragLast.before.rotationY
    /\ (/\ dragLast.op = "frame"
        /\ dragLast.gesture # "VICTORY"
        /\ ~dragLast.before.isDragging
        /\ Abs(dragLast.before.velocity) > 100) =>
           /\ rotationY = dragLast.before.rotationY + dragLast.before.velocity
           /\ 100 * velocity >= 95 * dragLast.before.velocity - 50
           /\ 100 * velocity <= 95 * dragLast.before.velocity + 50
    /\ coast.on =>
           /\ coast.k = 0 => velocity = coast.v0
           /\ (coast.k = 1 /\ (19 * coast.v0) % 20 = 0) => 20 * velocity = 19 * coast.v0
           /\ (coast.k = 2 /\ (361 * coast.v0) % 400 = 0) => 400 * velocity = 361 * coast.v0
           /\ Abs(velocity) >= coast.low
           /\ Abs(velocity) <= coast.high
           /\ coast.high - coast.low <= 20
           /\ coast.v0 > 0 => velocity >= 0
           /\ coast.v0 < 0 => velocity <= 0

\* Released at velocity 0.5, the tree has coasted for three frames: the
\* velocity is 0.5 x 0.95^3 = 0.4286875.
C20_Witness ==
    /\ coast.on
    /\ coast.v0 = 500000
    /\ coast.k = 3
    /\ dragLast.op = "frame"
    /\ velocity \in 428687..428688
    /\ ~isDragging

----------------------------------------------------------------------------
(* VICTORY override *)

\* C21: every frame that finds handState.gesture = VICTORY turns the tree by
\* -0.3 x delta and sets the stored velocity to 0, whether the controller is
\* idle or dragging; the velocity stored before the frame is not added to the
\* rotation, and the frame changes neither isDragging nor the recorded X.
C21_VictoryOverridesEveryFrame ==
    (dragLast.op = "frame" /\ dragLast.gesture = "VICTORY") =>
        /\ dragLast.x \in TreeDeltas
        /\ rotationY = dragLast.before.rotationY - dragLast.x * 300
        /\ velocity = 0
        /\ isDragging = dragLast.before.isDragging
        /\ previousMouseX = dragLast.before.previousMouseX

\* A VICTORY frame of 0.1 s during a drag that had stored a velocity of 0.5:
\* the tree turns by -0.03 and the velocity is gone.
C21_Witness ==
    /\ dragLast.op = "frame"
    /\ dragLast.gesture = "VICTORY"
    /\ dragLast.x = 100
    /\ dragLast.before.isDragging
    /\ dragLast.before.velocity = 500000
    /\ rotationY = dragLast.before.rotationY - 30000
    /\ velocity = 0

\* C22: when a VICTORY gesture ends, inertia restarts from zero: whatever
\* pointer events and frames happened during the override, the first frame
\* after handState.gesture has stopped being VICTORY finds the stored velocity
\* at 0 and does not turn the tree.
C22_InertiaRestartsFromZero ==
    (dragLast.op = "frame" /\ dragLast.override = "ended") =>
        /\ dragLast.before.velocity = 0
        /\ rotationY = dragLast.before.rotationY

----------------------------------------------------------------------------
(* Rotation sources *)

\* C27: while handState.gesture = VICTORY the rotation changes only by the
\* gesture rate applied on frames: a frame turns the tree by -0.3 x delta, and
\* no pointer event, a pointer-move included, changes the rotation.
C27_OnlyGestureRotatesUnderVictory ==
    dragLast.gesture = "VICTORY" =>
        IF dragLast.op = "frame"
        THEN rotationY = dragLast.before.rotationY - dragLast.x * 300
        ELSE rotationY = dragLast.before.rotationY

----------------------------------------------------------------------------
(* Teardown and failures of the detector *)

\* C23: once the cleanup of GestureController's effect has run, no detection
\* cycle executes, setHandState is not called, and no camera stream is live:
\* a stream acquired before the cleanup has been stopped and a stream acquired
\* after it is stopped too, whatever the order of the cleanup and of the steps
\* of the setup, the loadeddata event and a pending animation frame.
C23_TeardownStopsDetector ==
    torn =>
        /\ ~late.cycle
        /\ ~late.write
        /\ stream # "live"

\* C24: when the initialisation of the detector fails, the camera is denied
\* or the browser has no getUserMedia, predictWebcam is never called: the
\* store keeps its initial handState (detected false, gesture NONE), the
\* debounce state stays as constructed, and the mode changes by toggleMode
\* only, which flips FORMED and CHAOS as ever.
C24_UnavailableDetectorDegrades ==
    setup \in {"failed", "denied", "nomedia"} =>
        /\ handState = InitialHandState
        /\ pendingGestureRef = "NONE"
        /\ gestureCountRef = 0
        /\ loadeddata = "unarmed"
        /\ ~rafPending
        /\ lastOp.op \in {"init", "toggleMode"}
        /\ lastOp.op = "init" => mode = "FORMED"
        /\ lastOp.op = "toggleMode" =>
               /\ mode = ToggleResult(pre.mode)
               /\ mode \in {"FORMED", "CHAOS"}
               /\ mode # pre.mode

\* The camera was denied and the mode was toggled to CHAOS all the same.
C24_Witness ==
    /\ setup = "denied"
    /\ handLandmarker = "open"
    /\ lastOp.op = "toggleMode"
    /\ pre.mode = "FORMED"
    /\ mode = "CHAOS"
    /\ handState = InitialHandState

\* C25: a cycle in which the detector call throws leaves handState, the mode
\* and the debounce state (candidate and count) as they were, and has asked
\* for the next animation frame: the next cycle is pending until it runs or
\* the component is torn down.
C25_ThrowKeepsStateAndLoop ==
    lastOp.op = "threw" =>
        /\ handState = pre.handState
        /\ mode = pre.mode
        /\ pendingGestureRef = pre.pending
        /\ gestureCountRef = pre.count
        /\ animationFrameId = "set"
        /\ rafPending \/ torn

\* The detector threw in the middle of a confirmation, with OPEN held.
C25_Witness ==
    /\ lastOp.op = "threw"
    /\ handState.detected
    /\ handState.gesture = "OPEN"
    /\ pendingGestureRef = "FIST"
    /\ gestureCountRef = 3
    /\ rafPending
    /\ ~torn

----------------------------------------------------------------------------
(* Toggle against detector *)

\* A toggle has changed the mode away from the mode of the gesture handState
\* held before the last operation.
Toggled ==
    /\ pre.handState.detected
    /\ pre.handState.gesture \in {"OPEN", "FIST", "PINCH"}
    /\ pre.mode # TableMode(pre.mode, pre.handState.gesture)

\* C28 as claimed: after a toggle while a hand is detected with OPEN, FIST or
\* PINCH retained, the mode right after the next hand-detected update is the
\* mode of that retained gesture again.
C28_UpdateRestoresRetainedGestureMode ==
    (lastOp.op = "hand" /\ Toggled) =>
        mode = TableMode(pre.mode, pre.handState.gesture)

\* C28: every hand-detected update applies the mode of the gesture handState
\* holds after it.  After a toggle against a retained OPEN, FIST or PINCH the
\* next hand-detected update restores that gesture's mode when it is
\* unconfirmed or confirms the same gesture; when it confirms another gesture
\* the mode is that gesture's (OPEN, FIST, PINCH) or stays as toggled
\* (VICTORY, NONE).  A toggle outlives an update only when the update finds no
\* hand or the gesture held after it is VICTORY or NONE.
C28_UpdateAppliesHeldGestureMode ==
    /\ lastOp.op = "hand" =>
           /\ handState.detected
           /\ handState.gesture = IF lastOp.wrote THEN lastOp.label
                                  ELSE pre.handState.gesture
           /\ (Toggled /\ (~lastOp.wrote \/ lastOp.label = pre.handState.gesture)) =>
                  /\ mode = TableMode(pre.mode, pre.handState.gesture)
                  /\ mode # pre.mode
           /\ (Toggled /\ lastOp.wrote /\ lastOp.label \in {"OPEN", "FIST", "PINCH"}) =>
                  mode = TableMode(pre.mode, lastOp.label)
           /\ (Toggled /\ lastOp.wrote /\ lastOp.label \in {"VICTORY", "NONE"}) =>
                  mode = pre.mode
           /\ handState.gesture \in {"VICTORY", "NONE"} => mode = pre.mode
           /\ handState.gesture \in {"OPEN", "FIST", "PINCH"} =>
                  mode = TableMode(pre.mode, handState.gesture)
    /\ lastOp.op = "nohand" => mode = pre.mode

\* OPEN is held with the mode toggled to FORMED, and an unconfirmed update
\* puts the mode back to CHAOS.
C28_Witness ==
    /\ lastOp.op = "hand"
    /\ ~lastOp.wrote
    /\ pre.handState.detected
    /\ pre.handState.gesture = "OPEN"
    /\ pre.mode = "FORMED"
    /\ mode = "CHAOS"

----------------------------------------------------------------------------
(* Debounce: no early confirmation *)

\* C29: whenever handState.gesture holds a label L other than NONE, it was
\* written by a hand-detected update that ended a run of at least 6
\* consecutive hand-detected updates classified as L, with no no-hand update
\* inside the run, and no no-hand update has reset the field since.
C29_NoEarlyConfirmation ==
    /\ handState.gesture # "NONE" =>
           /\ streak.held.label = handState.gesture
           /\ streak.held.len >= 6
    /\ lastOp.op = "nohand" => streak.held.len = 0 /\ handState.gesture = "NONE"
    /\ (lastOp.op = "hand" /\ lastOp.wrote) =>
           /\ streak.held = [label |-> lastOp.label, len |-> streak.len]
           /\ streak.len >= 6

\* VICTORY was confirmed by a run of exactly 6 and is still held while the
\* classifier says FIST.
C29_Witness ==
    /\ handState.gesture = "VICTORY"
    /\ streak.held = [label |-> "VICTORY", len |-> 6]
    /\ lastOp.op = "hand"
    /\ lastOp.label = "FIST"
    /\ ~lastOp.wrote

----------------------------------------------------------------------------
(* handState: undetected means no gesture *)

\* C30: in every state of the store detected = false implies gesture = NONE
\* and landmarks = []; so a held VICTORY (the rotation override) and a mode
\* changed by a detector update occur only with detected = true.
C30_UndetectedMeansNoGesture ==
    /\ ~handState.detected =>
           /\ handState.gesture = "NONE"
           /\ handState.landmarks = <<>>
    /\ handState.gesture = "VICTORY" => handState.detected
    /\ (IsUpdate /\ mode # pre.mode) => handState.detected

\* The hand that held VICTORY is lost.
C30_Witness ==
    /\ lastOp.op = "nohand"
    /\ pre.handState.detected
    /\ pre.handState.gesture = "VICTORY"
    /\ pre.handState.landmarks # <<>>
    /\ ~handState.detected
    /\ handState.gesture = "NONE"
    /\ handState.landmarks = <<>>

C31_FrameWhileDragging ==
    /\ dragLast.op = "frame"
    /\ dragLast.before.isDragging
    /\ dragLast.gesture # "VICTORY"
    /\ dragLast.before.velocity # 0

\* The controller is idle: no drag and no VICTORY gesture.
Idle == ~isDragging /\ handState.gesture # "VICTORY"

\* C32: inertia terminates. If the controller stays idle from some frame on,
\* the stored velocity becomes exactly 0 and stays 0; a frame of the idle
\* controller with |velocity| <= 1e-4 sets the velocity to 0 and leaves the
\* rotation alone, which covers every frame after the velocity reached 0.
C32_InertiaTerminates ==
    /\ [](dragLast.op = "frame" /\ ~dragLast.before.isDragging
            /\ dragLast.gesture # "VICTORY"
            /\ Abs(dragLast.before.velocity) <= 100
          => velocity = 0 /\ rotationY = dragLast.before.rotationY)
    /\ (<>[]Idle => <>[](velocity = 0))

\* A frame of the idle controller that found a velocity left of a coast of
\* at least a hundred frames, at or below the threshold, and zeroed it.
C32_Witness ==
    /\ dragLast.op = "frame"
    /\ ~dragLast.before.isDragging
    /\ dragLast.gesture # "VICTORY"
    /\ dragLast.before.velocity # 0
    /\ Abs(dragLast.before.velocity) <= 100
    /\ coast.k >= 100
    /\ velocity = 0

\* C34: the face-outward snap is applied only in FORMED mode with the chaos
\* mix and the grid mix both below 0.1; every other frame takes exactly one
\* of the two other branches, facing the camera only in GRID with the grid
\* mix above 0.5.
C34_SnapOnlyWhenSettled ==
    lastFrame.mode # "none" =>
        /\ lastFrame.rotation \in {"lookOutward", "lookAtCamera", "spin"}
        /\ lastFrame.rotation = "lookOutward" =>
               /\ lastFrame.mode = "FORMED"
               /\ 10 * polLerpVal < MixOne
               /\ 10 * polGridLerpVal < MixOne
        /\ lastFrame.rotation = "lookAtCamera" =>
               lastFrame.mode = "GRID" /\ 2 * polGridLerpVal > MixOne

\* A polaroid: tree, chaos and grid position of item 7.
SamplePolaroid ==
    [treePos |-> PolaroidTreePoint(52, 0), chaosPos |-> PolaroidChaosPoint(180, 25, 70),
     gridPos |-> GridPoint(7)]

\* The layout position of the mode.
Layout(data, m) ==
    IF m = "CHAOS" THEN data.chaosPos ELSE IF m = "GRID" THEN data.gridPos ELSE data.treePos

\* The distance from its target below which an accumulator of the model no
\* longer moves: a step of less than half a unit rounds to nothing.
Resolution(delta) ==
    LET t == Times(delta, Rates.polLerpVal) IN t[2] \div (2 * t[1])

\* Both mixes of the polaroid are at the targets of the mode, to the
\* resolution of the accumulators, and the nested blend is the layout
\* position of the mode.
Settled ==
    /\ Abs(polLerpVal - targetChaos(mode)) <= Resolution(lastFrame.delta)
    /\ Abs(polGridLerpVal - targetGrid(mode)) <= Resolution(lastFrame.delta)
    /\ PolaroidPosition(SamplePolaroid, polLerpVal, polGridLerpVal) = Layout(SamplePolaroid, mode)

\* C33: once the mode stays fixed and every frame has 0 < delta x 2.5 <= 1,
\* the chaos mix and the grid mix of the polaroid end up at (1, 0) in CHAOS,
\* (0, 0) in FORMED and (0, 1) in GRID and stay there, and the nested blend of
\* the tree, chaos and grid positions is then the position of that layout,
\* whatever the mixes were when the mode last changed.
C33_PolaroidsSettle == <>[](frames >= SettleFrom /\ Settled)

\* The mixes of the polaroid when the mode last changed, if no frame of the
\* fixed mode has run yet.
Overshot == polGridLerpVal > MixOne

\* A settled CHAOS layout at the end of a run of 16 ms frames, the chaos mix
\* resting within the resolution of its target and not on it.
C33_Witness ==
    /\ frames = SettleFrom + MaxSteadyFrames
    /\ mode = "CHAOS"
    /\ Settled
    /\ lastFrame.delta = 16
    /\ polLerpVal # MixOne
    /\ polGridLerpVal <= Resolution(16)

\* The run of CHAOS starts with the grid mix above 1, left by a long frame.
C33_StartsOvershot ==
    /\ frames = SettleFrom
    /\ mode = "CHAOS"
    /\ Overshot

\* The variables of the items generator.
polGenVars == <<arr, polI, polPhase, polTree, cPos, polAttempts, polValid>>

\* The steps the generator has left at most: every item takes its tree
\* position, at most 50 candidates and the push.
PolVariant ==
    IF polPhase = "done" THEN 0
    ELSE (COUNT - polI) * (MaxPolaroidAttempts + 2)
             - (IF polPhase = "chaos" THEN 1 + polAttempts ELSE 0)

ChaosPositionsKept ==
    /\ Len(arr) = polI
    /\ Len(polFound) = polI
    /\ polAttempts <= MaxPolaroidAttempts
    /\ \A j \in 1..Len(arr) :
           IF polFound[j]
           THEN \A i \in 1..(j - 1) :
                    VDist2(arr[i].chaosPos, arr[j].chaosPos) >= MIN_DIST * MIN_DIST
           ELSE \E i \in 1..(j - 1) :
                    VDist2(arr[i].chaosPos, arr[j].chaosPos) < MIN_DIST * MIN_DIST
    /\ (polI >= 1 /\ polPhase \in {"tree", "done"}) =>
           /\ arr[polI].chaosPos = cPos
           /\ polFound[polI] = polValid
           /\ polValid \/ polAttempts = MaxPolaroidAttempts
    /\ polPhase = "done" => polI = COUNT
    /\ polPhase # "done" => ENABLED (polBegin \/ polAttempt \/ polPush)

\* C35: the chaos position of a polaroid that was found free of collisions
\* within its 50 candidates is at least 2.4 from the chaos position of every
\* polaroid before it; a polaroid whose 50 candidates all collide keeps the
\* last candidate, overlapping an earlier one, and is pushed all the same;
\* and the generator terminates whatever the draws are: while it is not done
\* it has a step to take, and every step lowers PolVariant.
C35_ChaosPositionsKeepDistance ==
    /\ []ChaosPositionsKept
    /\ [][PolVariant' < PolVariant /\ PolVariant' >= 0]_polGenVars

\* All 25 items are generated: the second was found exactly 2.4 from the
\* first, and a later one kept the last of 50 colliding candidates.
C35_Witness ==
    /\ polPhase = "done"
    /\ Len(arr) = COUNT
    /\ polFound[2]
    /\ VDist2(arr[1].chaosPos, arr[2].chaosPos) = MIN_DIST * MIN_DIST
    /\ ~polFound[COUNT]
    /\ polAttempts = MaxPolaroidAttempts
    /\ arr[COUNT].chaosPos = arr[1].chaosPos

\* C36: the photo list never holds more than 25 entries; an upload of n files
\* with r = 25 - length slots left appends the URLs of the first min(n, r)
\* files in their order, and nothing when r <= 0; the removal of index i
\* leaves the entries before i and after i, in their order.
C36_PhotoListBounded ==
    /\ Len(photos) \in 0..MAX_PHOTOS
    /\ photoLast.op = "upload" =>
           LET r == MAX_PHOTOS - Len(photoLast.before)
               taken == IF r <= 0 THEN 0 ELSE IF photoLast.n < r THEN photoLast.n ELSE r
           IN  /\ Len(photos) = Len(photoLast.before) + taken
               /\ \A j \in 1..Len(photos) :
                      photos[j] = IF j <= Len(photoLast.before) THEN photoLast.before[j]
                                  ELSE Url(photoLast.urls + j - Len(photoLast.before))
    /\ photoLast.op = "remove" =>
           /\ Len(photos) = Len(photoLast.before) - 1
           /\ \A j \in 1..Len(photos) :
                  photos[j] = photoLast.before[IF j <= photoLast.n THEN j ELSE j + 1]

\* An upload of 30 files into a list of 24 left by a removal: one file is
\* taken and the list holds 25 again.
C36_Witness ==
    /\ photoLast.op = "upload"
    /\ photoLast.n = 30
    /\ Len(photoLast.before) = 24
    /\ removals > 0
    /\ Len(photos) = MAX_PHOTOS
    /\ photos[MAX_PHOTOS] = Url(photoLast.urls + 1)
    /\ photos[1] # Url(1)

\* An upload into a full list.
C36_FullListIgnoresUpload ==
    /\ photoLast.op = "upload"
    /\ photoLast.n > 0
    /\ Len(photoLast.before) = MAX_PHOTOS

====
